---- MODULE Spec2Model ----
(***************************************************************************)
(* A model of the ai_term agent shell: the safety gate, the session, the   *)
(* command runner, the tool dispatcher, the conversation store and the     *)
(* command processor's agent loop.                                         *)
(*                                                                         *)
(* Text is modelled as a sequence of strings.  Text the code inspects      *)
(* (commands, paths) is a sequence of one-character strings, so that       *)
(* tokenising, case folding and path normalisation are computed the way    *)
(* the code computes them; a fixed text of the code (a message) is one     *)
(* element holding the whole text, and an f-string is the concatenation    *)
(* of its fixed texts and its interpolated parts.                          *)
(***************************************************************************)
EXTENDS Integers, Sequences, FiniteSets, TLC

VARIABLES
    gate_cmd,       \* the command string handed to is_safe_command
    gate_profile,   \* the safety profile handed to is_safe_command
    gate_res,       \* <<>> before the call, <<ok, reason>> after it
    sandbox_root,   \* Session.sandbox_root
    cwd,            \* Session.cwd
    home,           \* os.path.expanduser("~") of the process
    sess_call,      \* the call in progress on the session or the runner
    run_res,        \* <<>>, or what the last call returned
    spawned,        \* the number of subprocess.Popen calls the last call made
    history,        \* ConversationManager.history
    token_estimate, \* ConversationManager._token_estimate
    clock,          \* the source of datetime.now(): the number of entries ever stamped
    appended,       \* every entry appended since the last clear, in order
    special_used,   \* entries appended so far that are not a plain user message
    clears_used,    \* the number of calls of clear so far
    files,          \* the regular files of the file system, by path components
    settings_safety_profile,    \* Settings.safety_profile
    state,          \* CommandProcessor._state
    tool_calls_remaining,   \* CommandProcessor._tool_calls_remaining
    error_recovery_depth,   \* CommandProcessor._error_recovery_depth
    pc,             \* where the command processor stands in its current method
    query,          \* the input of the method in progress: its kind and its text
    current_prompt, \* the prompt of the next collaborator request
    suggestion,     \* the AISuggestion in hand, NoSuggestion when there is none
    last_tool_call, \* the tool call last handed to _execute_tool_with_timing
    exec_result,    \* the ToolExecutionResult it returned, NoResult before the first
    final_explanation,  \* process_ai_query's local of that name
    executed,       \* calls of ToolExecutor.execute since the method started
    requests,       \* the prompt kind of every collaborator request since then
    tools_run,      \* calls of ToolExecutor.execute since the process started
    queries,        \* the number of top-level inputs processed or in progress
    proposed,       \* tool calls the collaborator has proposed in this run
    run_pc,         \* where run_safe_command stands in its child-process branch
    child_state,    \* "none", "running", "exited" or "terminated"
    child_prog,     \* the streams the child still has to write a line to, in order
    child_code,     \* the code the child exits with
    pipe_stdout,    \* the lines written to the stdout pipe and not yet read
    pipe_stderr,    \* the lines written to the stderr pipe and not yet read
    stdout_str_list,    \* run_safe_command's local of that name
    stderr_str_list,    \* run_safe_command's local of that name
    wrote_stdout,   \* every line the child wrote to its stdout, in order
    wrote_stderr,   \* every line the child wrote to its stderr, in order
    terminate_calls,    \* the number of process.terminate() calls
    interrupted_at, \* where KeyboardInterrupt was raised, "none" when it was not
    clean_cmd,      \* the string first handed to CommandCleaner.clean
    clean_outs,     \* what each call of clean returned, each fed to the next
    reply           \* the text of the collaborator's last reply, None before it

gateVars == <<gate_cmd, gate_profile, gate_res>>
sessVars == <<sandbox_root, cwd, home>>
callVars == <<sess_call, run_res, spawned>>
convVars == <<history, token_estimate, clock, appended>>
convBudget == <<special_used, clears_used>>
procVars == <<settings_safety_profile, state, tool_calls_remaining, error_recovery_depth,
              pc, query, current_prompt, suggestion, last_tool_call,
              exec_result,
              final_explanation, executed, requests, tools_run, queries,
              proposed>>
childVars == <<child_state, child_prog, child_code, pipe_stdout, pipe_stderr,
               wrote_stdout, wrote_stderr>>
runVars == <<run_pc, stdout_str_list, stderr_str_list, terminate_calls,
             interrupted_at, childVars>>

cleanVars == <<clean_cmd, clean_outs>>
replyVars == <<reply>>
vars == <<gate_cmd, gate_profile, gate_res, sandbox_root, cwd, home,
          sess_call, run_res, spawned,
          history, token_estimate, clock, appended, special_used, clears_used,
          files, settings_safety_profile, state, tool_calls_remaining,
          error_recovery_depth, pc, query, current_prompt, suggestion,
          last_tool_call, exec_result, final_explanation, executed, requests, tools_run,
          queries, proposed, run_pc, child_state, child_prog, child_code,
          pipe_stdout, pipe_stderr, stdout_str_list, stderr_str_list,
          wrote_stdout, wrote_stderr, terminate_calls, interrupted_at,
          clean_cmd, clean_outs, reply>>

-----------------------------------------------------------------------------
(* Bounds of the exploration *)

MaxPieces == 4      \* a gate command is the concatenation of at most this many pieces
MaxPathPieces == 3  \* a cd target is the concatenation of at most this many pieces
MaxAppends == 22    \* entries appended to the conversation in one run of SpecConv
MaxSpecial == 1     \* of these, the ones that are not a plain user message
MaxClears == 1      \* calls of clear in one run of SpecConv
MaxWork == 17       \* the work of one run of Spec, see WorkDone
MaxCleanPieces == 3
MaxCleans == 2
MaxReplies == 2
MaxProfilePieces == 3   \* a command checked under the profile names has at most this many pieces
MaxRecorded == 2    \* tool results recorded in one run of SpecRecord
MaxWrites == 3      \* lines a child process writes before it exits
PipeCapacity == 2   \* lines a pipe holds before a write to it blocks

-----------------------------------------------------------------------------
(* Text helpers: Python str methods on sequences of characters *)

Whitespace == {" ", "\t", "\n", "\r"}

UpperChars == <<"A","B","C","D","E","F","G","H","I","J","K","L","M",
                "N","O","P","Q","R","S","T","U","V","W","X","Y","Z">>
LowerChars == <<"a","b","c","d","e","f","g","h","i","j","k","l","m",
                "n","o","p","q","r","s","t","u","v","w","x","y","z">>

UpperToLower ==
    [c \in {UpperChars[i] : i \in 1..Len(UpperChars)} |->
        LowerChars[CHOOSE i \in 1..Len(UpperChars) : UpperChars[i] = c]]

\* str.lower() on one character
lower_char(c) == IF c \in DOMAIN UpperToLower THEN UpperToLower[c] ELSE c

\* str.lower()
lower(s) == [i \in 1..Len(s) |-> lower_char(s[i])]

\* str.startswith(prefix)
startswith(s, prefix) ==
    /\ Len(prefix) <= Len(s)
    /\ SubSeq(s, 1, Len(prefix)) = prefix

\* str.strip(): drop leading and trailing whitespace
strip(s) ==
    LET keep == {i \in 1..Len(s) : s[i] \notin Whitespace}
    IN  IF keep = {} THEN <<>>
        ELSE LET lo == CHOOSE i \in keep : \A j \in keep : i <= j
                 hi == CHOOSE i \in keep : \A j \in keep : i >= j
             IN  SubSeq(s, lo, hi)

RECURSIVE Flatten(_)
\* "".join(parts)
Flatten(parts) ==
    IF parts = <<>> THEN <<>> ELSE Head(parts) \o Flatten(Tail(parts))

\* f"{text}{detail}": a message with a fixed text and an interpolated part
Msg(text, detail) == <<text>> \o detail
\* The empty string ""
NoMsg == <<>>

-----------------------------------------------------------------------------
(* shlex.split(command): POSIX mode, whitespace_split, no comment characters *)

Quotes == {"'", "\""}
Escape == {"\\"}
EscapedQuotes == {"\""}

ShlexOk(tokens) == [ok |-> TRUE, tokens |-> tokens, error |-> <<>>]
ShlexError(text) == [ok |-> FALSE, tokens |-> <<>>, error |-> <<text>>]

RECURSIVE shlex_read(_, _, _, _, _, _, _)
\* s: the input; i: index of the next character; st: the lexer state (" " between
\* tokens, "a" in a word, a quote character, the escape character); es: escapedstate;
\* tok: the token read so far; q: whether the token had a quoted part; out: tokens.
shlex_read(s, i, st, es, tok, q, out) ==
    LET eof  == i > Len(s)
        c    == IF eof THEN "" ELSE s[i]
        emit == IF tok # <<>> \/ q THEN Append(out, tok) ELSE out
    IN
    IF st = " " THEN
        IF eof THEN ShlexOk(emit)
        ELSE IF c \in Whitespace THEN shlex_read(s, i + 1, " ", es, <<>>, FALSE, emit)
        ELSE IF c \in Escape THEN shlex_read(s, i + 1, c, "a", tok, q, out)
        ELSE IF c \in Quotes THEN shlex_read(s, i + 1, c, es, tok, q, out)
        ELSE shlex_read(s, i + 1, "a", es, <<c>>, q, out)
    ELSE IF st \in Quotes THEN
        IF eof THEN ShlexError("No closing quotation")
        ELSE IF c = st THEN shlex_read(s, i + 1, "a", es, tok, TRUE, out)
        ELSE IF c \in Escape /\ st \in EscapedQuotes
             THEN shlex_read(s, i + 1, c, st, tok, TRUE, out)
        ELSE shlex_read(s, i + 1, st, es, Append(tok, c), TRUE, out)
    ELSE IF st \in Escape THEN
        IF eof THEN ShlexError("No escaped character")
        ELSE LET t1 == IF es \in Quotes /\ c # st /\ c # es THEN Append(tok, st) ELSE tok
             IN  shlex_read(s, i + 1, es, es, Append(t1, c), q, out)
    ELSE \* st = "a"
        IF eof THEN ShlexOk(emit)
        ELSE IF c \in Whitespace THEN shlex_read(s, i + 1, " ", es, <<>>, FALSE, emit)
        ELSE IF c \in Quotes THEN shlex_read(s, i + 1, c, es, tok, q, out)
        ELSE IF c \in Escape THEN shlex_read(s, i + 1, c, "a", tok, q, out)
        ELSE shlex_read(s, i + 1, "a", es, Append(tok, c), q, out)

shlex_split(s) == shlex_read(s, 1, " ", "a", <<>>, FALSE, <<>>)

-----------------------------------------------------------------------------
(* The safety gate *)

\* The backquote character.  A TLA+ string cannot hold it, so it is written
\* as a caret, a character no text of this model contains otherwise.
Backtick == "^"

W_rm    == <<"r","m">>
W_sudo  == <<"s","u","d","o">>
W_chgrp == <<"c","h","g","r","p">>
W_dd    == <<"d","d">>
W_cd    == <<"c","d">>

BASE_FORBIDDEN_WORDS ==
    {W_rm, W_sudo, <<"&","&">>, <<"|","|">>, <<";">>, <<"|">>, <<Backtick>>,
     <<"$","(">>, <<"<">>, <<">">>}

Profiles == {"standard", "lenient", "strict"}

\* The profile names a caller passes: the three profiles, the empty name,
\* a name in other letter cases and a name that is no profile
ProfileNames == Profiles \cup {"", "Strict", "LENIENT", "paranoid"}

\* str.lower() on a profile name: the names of ProfileNames that hold
\* upper-case letters, every other name of the model is lower case already
profile_lower(name) ==
    CASE name = "Strict" -> "strict"
      [] name = "LENIENT" -> "lenient"
      [] OTHER -> name

\* A strict profile that forbids its two own words only
get_forbidden_words_strict_alone(safety_profile) ==
    LET profile == profile_lower(IF safety_profile = "" THEN "standard"
                                 ELSE safety_profile)
    IN  IF profile = "lenient"
        THEN BASE_FORBIDDEN_WORDS
        ELSE IF profile = "strict"
        THEN {W_chgrp, W_dd}
        ELSE BASE_FORBIDDEN_WORDS

\* profile = (safety_profile or "standard").lower()
get_forbidden_words(safety_profile) ==
    LET profile == profile_lower(IF safety_profile = "" THEN "standard"
                                 ELSE safety_profile)
    IN  IF profile = "lenient"
        THEN {W_rm, W_sudo, <<"&","&">>, <<"|","|">>, <<";">>, <<"|">>, <<Backtick>>,
              <<"$","(">>, <<"<">>, <<">">>}
        ELSE IF profile = "strict"
        THEN BASE_FORBIDDEN_WORDS \cup {W_chgrp, W_dd}
        ELSE BASE_FORBIDDEN_WORDS

\* A comparison that forgets t.lower()
token_matches_cased(t, word) ==
    t = word \/ startswith(t, word \o <<"-">>)

\* lower = t.lower(); lower == word or lower.startswith(word + "-")
token_matches(t, word) ==
    LET lower_t == lower(t)
    IN  lower_t = word \/ startswith(lower_t, word \o <<"-">>)

\* The forbidden-word loop over the tokens: the first token that matches a
\* word decides.  No forbidden word contains "-", so a token matches at most
\* one word and the iteration order does not matter.
RECURSIVE forbidden_hit(_, _)
forbidden_hit(tokens, forbidden_words) ==
    IF tokens = <<>> THEN <<>>
    ELSE LET words == {w \in forbidden_words : token_matches(Head(tokens), w)}
         IN  IF words # {} THEN <<CHOOSE w \in words : TRUE>>
             ELSE forbidden_hit(Tail(tokens), forbidden_words)

\* A cd rule that lets two arguments through
cd_rule_two_args(tokens) ==
    IF tokens[1] = W_cd
    THEN IF Len(tokens) > 3
         THEN <<FALSE, Msg("cd supports at most one argument.", <<>>)>>
         ELSE <<TRUE, NoMsg>>
    ELSE <<TRUE, NoMsg>>

\* name = tokens[0]; the cd special case and the final acceptance
cd_rule(tokens) ==
    IF tokens[1] = W_cd
    THEN IF Len(tokens) > 2
         THEN <<FALSE, Msg("cd supports at most one argument.", <<>>)>>
         ELSE <<TRUE, NoMsg>>
    ELSE <<TRUE, NoMsg>>

is_safe_command(command, safety_profile) ==
    IF strip(command) = <<>> THEN <<FALSE, Msg("Empty command.", <<>>)>>
    ELSE
    LET parsed == shlex_split(command) IN
    IF ~parsed.ok THEN <<FALSE, Msg("Unable to parse command: ", parsed.error)>>
    ELSE
    LET tokens == parsed.tokens IN
    IF tokens = <<>> THEN <<FALSE, Msg("Unable to parse command.", <<>>)>>
    ELSE
    LET hit == forbidden_hit(tokens, get_forbidden_words(safety_profile)) IN
    IF hit # <<>> THEN <<FALSE, Msg("Command contains forbidden word: ", hit[1])>>
    ELSE cd_rule(tokens)

-----------------------------------------------------------------------------
(* os.path (posixpath) on text *)

DotDot == <<".", ".">>

\* os.path.isabs(path)
isabs(path) == startswith(path, <<"/">>)

RECURSIVE path_split(_)
\* path.split("/"): the components between the separators, empty ones included
path_split(s) ==
    IF \A i \in 1..Len(s) : s[i] # "/" THEN <<s>>
    ELSE LET k == CHOOSE i \in 1..Len(s) :
                      s[i] = "/" /\ \A j \in 1..(i - 1) : s[j] # "/"
         IN  <<SubSeq(s, 1, k - 1)>> \o path_split(SubSeq(s, k + 1, Len(s)))

RECURSIVE sep_join(_)
\* "/".join(comps)
sep_join(comps) ==
    IF comps = <<>> THEN <<>>
    ELSE IF Len(comps) = 1 THEN comps[1]
    ELSE comps[1] \o <<"/">> \o sep_join(Tail(comps))

\* os.path.join(a, b)
path_join(a, b) ==
    IF isabs(b) THEN b
    ELSE IF a = <<>> \/ a[Len(a)] = "/" THEN a \o b
    ELSE a \o <<"/">> \o b

RECURSIVE norm_comps(_, _, _)
\* The loop of os.path.normpath over the components
norm_comps(comps, new_comps, initial_slashes) ==
    IF comps = <<>> THEN new_comps
    ELSE
    LET comp == Head(comps)
        rest == Tail(comps)
    IN  IF comp = <<>> \/ comp = <<".">>
        THEN norm_comps(rest, new_comps, initial_slashes)
        ELSE IF \/ comp # DotDot
                \/ (initial_slashes = 0 /\ new_comps = <<>>)
                \/ (new_comps # <<>> /\ new_comps[Len(new_comps)] = DotDot)
        THEN norm_comps(rest, Append(new_comps, comp), initial_slashes)
        ELSE IF new_comps # <<>>
        THEN norm_comps(rest, SubSeq(new_comps, 1, Len(new_comps) - 1), initial_slashes)
        ELSE norm_comps(rest, new_comps, initial_slashes)

\* os.path.normpath(path); POSIX keeps exactly two leading slashes
normpath(path) ==
    IF path = <<>> THEN <<".">>
    ELSE
    LET initial_slashes ==
            IF ~startswith(path, <<"/">>) THEN 0
            ELSE IF startswith(path, <<"/", "/">>) /\ ~startswith(path, <<"/", "/", "/">>)
            THEN 2
            ELSE 1
        lead == IF initial_slashes = 2 THEN <<"/", "/">>
                ELSE IF initial_slashes = 1 THEN <<"/">>
                ELSE <<>>
        result == lead \o sep_join(norm_comps(path_split(path), <<>>, initial_slashes))
    IN  IF result = <<>> THEN <<".">> ELSE result

\* os.path.abspath(path) of a process whose working directory is process_cwd
abspath(path, process_cwd) ==
    normpath(IF isabs(path) THEN path ELSE path_join(process_cwd, path))

\* The components of a path that name something: not "" and not "."
real_comps(path) ==
    SelectSeq(path_split(path), LAMBDA c : c # <<>> /\ c # <<".">>)

\* os.path.commonpath([a, b]): ValueError when one is absolute and one is not
commonpath(a, b) ==
    IF isabs(a) # isabs(b) THEN [ok |-> FALSE, path |-> <<>>]
    ELSE
    LET ca == real_comps(a)
        cb == real_comps(b)
        same == {n \in 0..Len(ca) :
                    n <= Len(cb) /\ \A i \in 1..n : ca[i] = cb[i]}
        n == CHOOSE m \in same : \A k \in same : k <= m
        prefix == IF isabs(a) THEN <<"/">> ELSE <<>>
    IN  [ok |-> TRUE, path |-> prefix \o sep_join(SubSeq(ca, 1, n))]

-----------------------------------------------------------------------------
(* The file system the session lives in: a fixed tree of directories, no   *)
(* symbolic links.  A directory is the sequence of its component names.    *)

C_s == <<"s">>
C_a == <<"a">>
C_o == <<"o">>
C_sa == <<"s", "a">>

Dirs ==
    {<<>>, <<C_s>>, <<C_s, C_a>>, <<C_s, C_a, C_s>>, <<C_o>>, <<C_sa>>}

\* os.path.isdir(path) for an absolute path
isdir(path) == norm_comps(path_split(path), <<>>, 1) \in Dirs

\* The directory the process is started in, which becomes the sandbox root
StartDir == <<"/", "s">>

\* The home directories the process may have: outside the start directory,
\* the start directory itself, or below it
HomeDirs == {<<"/", "o">>, <<"/", "s">>, <<"/", "s", "/", "a">>}

-----------------------------------------------------------------------------
(* Session *)

\* A containment test on text instead of on path components
change_directory_by_text(s_root, s_cwd, path) ==
    IF path = <<>> THEN [ok |-> TRUE, msg |-> NoMsg, cwd |-> s_cwd]
    ELSE
    LET new_path == IF isabs(path) THEN abspath(path, StartDir)
                    ELSE abspath(path_join(s_cwd, path), StartDir)
    IN  IF ~startswith(new_path, s_root)
        THEN [ok |-> FALSE, cwd |-> s_cwd,
              msg |-> Msg("Target directory is outside the sandbox.", <<>>)]
        ELSE IF ~isdir(new_path)
        THEN [ok |-> FALSE, cwd |-> s_cwd,
              msg |-> Msg("Directory does not exist.", <<>>)]
        ELSE [ok |-> TRUE, msg |-> NoMsg, cwd |-> new_path]

\* A change of directory that moves before it has looked at the target
change_directory_move_first(s_root, s_cwd, path) ==
    IF path = <<>> THEN [ok |-> TRUE, msg |-> NoMsg, cwd |-> s_cwd]
    ELSE
    LET new_path == IF isabs(path) THEN abspath(path, StartDir)
                    ELSE abspath(path_join(s_cwd, path), StartDir)
        common == commonpath(s_root, new_path)
    IN  IF ~common.ok
        THEN [ok |-> FALSE, cwd |-> s_cwd, msg |-> Msg("Invalid path.", <<>>)]
        ELSE IF common.path # s_root
        THEN [ok |-> FALSE, cwd |-> s_cwd,
              msg |-> Msg("Target directory is outside the sandbox.", <<>>)]
        ELSE IF ~isdir(new_path)
        THEN [ok |-> FALSE, cwd |-> new_path,
              msg |-> Msg("Directory does not exist.", <<>>)]
        ELSE [ok |-> TRUE, msg |-> NoMsg, cwd |-> new_path]

\* Session.change_directory(path): the returned pair and the cwd it leaves
change_directory(s_root, s_cwd, path) ==
    IF path = <<>> THEN [ok |-> TRUE, msg |-> NoMsg, cwd |-> s_cwd]
    ELSE
    LET new_path == IF isabs(path) THEN abspath(path, StartDir)
                    ELSE abspath(path_join(s_cwd, path), StartDir)
        common == commonpath(s_root, new_path)
    IN  IF ~common.ok
        THEN [ok |-> FALSE, cwd |-> s_cwd, msg |-> Msg("Invalid path.", <<>>)]
        ELSE IF common.path # s_root
        THEN [ok |-> FALSE, cwd |-> s_cwd,
              msg |-> Msg("Target directory is outside the sandbox.", <<>>)]
        ELSE IF ~isdir(new_path)
        THEN [ok |-> FALSE, cwd |-> s_cwd,
              msg |-> Msg("Directory does not exist.", <<>>)]
        ELSE [ok |-> TRUE, msg |-> NoMsg, cwd |-> new_path]

-----------------------------------------------------------------------------
(* The command runner *)

InteractiveCommands ==
    {<<"t","o","p">>, <<"h","t","o","p">>, <<"v","i","m">>, <<"v","i">>,
     <<"n","a","n","o">>, <<"p","i","c","o">>, <<"l","e","s","s">>,
     <<"m","o","r","e">>, <<"m","a","n">>, <<"s","s","h">>}

\* text.strip().split()[0]: the first whitespace-delimited word
first_word(text) ==
    LET t == strip(text)
        ws == {i \in 1..Len(t) : t[i] \in Whitespace}
    IN  IF ws = {} THEN t
        ELSE SubSeq(t, 1, (CHOOSE i \in ws : \A j \in ws : i <= j) - 1)

\* CommandRecognizer.is_interactive(text)
is_interactive(text) ==
    IF strip(text) = <<>> THEN FALSE
    ELSE lower(first_word(text)) \in InteractiveCommands

\* What a child process does, as the runner sees it: it cannot be started
\* (Popen raises), the user interrupts the wait, or it exits with a code
\* after the runner captured the given texts from its pipes.
T_out == <<"o", "u", "t", "\n">>
T_err == <<"e", "r", "r", "\n">>

ChildOutcomes ==
    {[kind |-> "exit", code |-> 0, stdout |-> T_out, stderr |-> <<>>],
     [kind |-> "exit", code |-> 2, stdout |-> <<>>, stderr |-> T_err],
     [kind |-> "exit", code |-> 2, stdout |-> <<>>, stderr |-> <<>>],
     [kind |-> "interrupt", code |-> 0, stdout |-> <<>>, stderr |-> <<>>],
     [kind |-> "spawn_error", code |-> 0, stdout |-> <<>>,
      stderr |-> <<"[Errno 2] No such file or directory">>]}

\* The part of run_safe_command that runs the command as a child process
run_child(command, child) ==
    IF child.kind = "spawn_error"
    THEN <<FALSE, -1, <<>>, Msg("Failed to execute command: ", child.stderr)>>
    ELSE IF is_interactive(command)
    THEN IF child.kind = "interrupt"
         THEN <<TRUE, 0, <<>>, <<>>>>
         ELSE <<TRUE, child.code, <<>>, <<>>>>
    ELSE IF child.kind = "interrupt"
         THEN <<FALSE, -1, <<>>, Msg("Command interrupted by user.", <<>>)>>
         ELSE <<child.code = 0, child.code, child.stdout, child.stderr>>

\* The outcomes of running the command as a child process
spawn_outcomes(s_cwd, command) ==
    {[res |-> run_child(command, child), cwd |-> s_cwd, spawned |-> 1] :
        child \in ChildOutcomes}

\* A runner that changes directory before it asks the safety gate
run_safe_command_cd_first(s_root, s_cwd, s_home, command, safety_profile) ==
    LET parsed == shlex_split(command)
        gate == is_safe_command(command, safety_profile)
    IN  IF parsed.ok /\ parsed.tokens # <<>> /\ parsed.tokens[1] = W_cd
        THEN LET target == IF Len(parsed.tokens) >= 2 THEN parsed.tokens[2] ELSE s_home
                 cd == change_directory(s_root, s_cwd, target)
             IN  IF ~gate[1]
                 THEN {[res |-> <<FALSE, -1, <<>>, gate[2]>>, cwd |-> cd.cwd, spawned |-> 0]}
                 ELSE IF ~cd.ok
                 THEN {[res |-> <<FALSE, -1, <<>>, cd.msg>>, cwd |-> s_cwd, spawned |-> 0]}
                 ELSE {[res |-> <<TRUE, 0, <<>>, <<>>>>, cwd |-> cd.cwd, spawned |-> 0]}
        ELSE IF ~gate[1]
        THEN {[res |-> <<FALSE, -1, <<>>, gate[2]>>, cwd |-> s_cwd, spawned |-> 0]}
        ELSE spawn_outcomes(s_cwd, command)

\* run_safe_command(session, command, safety_profile): the set of its possible
\* outcomes, each the returned tuple, the cwd it leaves and the number of
\* Popen calls it made.  Only a spawned child makes the outcome a choice.
run_safe_command(s_root, s_cwd, s_home, command, safety_profile) ==
    LET gate == is_safe_command(command, safety_profile) IN
    IF ~gate[1]
    THEN {[res |-> <<FALSE, -1, <<>>, gate[2]>>, cwd |-> s_cwd, spawned |-> 0]}
    ELSE
    LET tokens == shlex_split(command).tokens IN
    IF tokens = <<>>
    THEN {[res |-> <<FALSE, -1, <<>>, Msg("Unable to parse command.", <<>>)>>,
           cwd |-> s_cwd, spawned |-> 0]}
    ELSE IF tokens[1] = W_cd
    THEN LET target == IF Len(tokens) = 2 THEN tokens[2] ELSE s_home
             cd == change_directory(s_root, s_cwd, target)
         IN  IF ~cd.ok
             THEN {[res |-> <<FALSE, -1, <<>>, cd.msg>>, cwd |-> s_cwd, spawned |-> 0]}
             ELSE {[res |-> <<TRUE, 0, <<>>, <<>>>>, cwd |-> cd.cwd, spawned |-> 0]}
    ELSE spawn_outcomes(s_cwd, command)

-----------------------------------------------------------------------------
(* Command cleaning: CommandCleaner *)

\* The ellipsis character, written as a tilde, a character no text of this
\* model contains otherwise
Ellipsis == "~"

\* CommandCleaner.PROMPTS, in the order the loop tries them
PROMPTS ==
    <<<<"$">>, <<"#">>, <<">">>, <<">", ">", ">">>, <<Ellipsis>>>>

Fence == <<Backtick, Backtick, Backtick>>

FenceLanguages ==
    {<<"b","a","s","h">>, <<"s","h">>, <<"s","h","e","l","l">>,
     <<"z","s","h">>, <<"f","i","s","h">>}

\* str.endswith(suffix)
endswith(s, suffix) ==
    /\ Len(suffix) <= Len(s)
    /\ SubSeq(s, Len(s) - Len(suffix) + 1, Len(s)) = suffix

\* str.count(c) for one character
count_char(s, c) == Cardinality({i \in 1..Len(s) : s[i] = c})

\* c in s, for one character
has_char(s, c) == \E i \in 1..Len(s) : s[i] = c

\* " ".join(parts)
RECURSIVE space_join(_)
space_join(parts) ==
    IF parts = <<>> THEN <<>>
    ELSE IF Len(parts) = 1 THEN parts[1]
    ELSE parts[1] \o <<" ">> \o space_join(Tail(parts))

\* CommandCleaner._remove_code_fences(cmd)
remove_code_fences(cmd) ==
    IF startswith(cmd, Fence) /\ endswith(cmd, Fence)
    THEN LET inner == strip(SubSeq(cmd, 4, Len(cmd) - 3)) IN
         IF has_char(inner, "\n")
         THEN LET nl == CHOOSE i \in 1..Len(inner) :
                            /\ inner[i] = "\n"
                            /\ \A j \in 1..(i - 1) : inner[j] # "\n"
                  first == SubSeq(inner, 1, nl - 1)
                  rest == SubSeq(inner, nl + 1, Len(inner))
              IN  IF strip(first) \in FenceLanguages
                  THEN strip(rest)
                  ELSE strip(inner)
         ELSE strip(inner)
    ELSE cmd

\* The step of clean that drops one pair of surrounding backticks
strip_backticks(cmd) ==
    IF /\ startswith(cmd, <<Backtick>>)
       /\ endswith(cmd, <<Backtick>>)
       /\ count_char(cmd, Backtick) = 2
    THEN strip(SubSeq(cmd, 2, Len(cmd) - 1))
    ELSE cmd

\* The step of clean that drops one pair of surrounding quotes
strip_quotes(cmd) ==
    IF \/ startswith(cmd, <<"\"">>) /\ endswith(cmd, <<"\"">>)
       \/ startswith(cmd, <<"'">>) /\ endswith(cmd, <<"'">>)
    THEN strip(SubSeq(cmd, 2, Len(cmd) - 1))
    ELSE cmd

\* The loop of clean over PROMPTS from the i-th on: the first prompt that
\* the command starts with, followed by a space, is dropped
RECURSIVE strip_prompt(_, _)
strip_prompt(cmd, i) ==
    IF i > Len(PROMPTS) THEN cmd
    ELSE IF startswith(cmd, PROMPTS[i] \o <<" ">>)
    THEN strip(SubSeq(cmd, Len(PROMPTS[i]) + 1, Len(cmd)))
    ELSE strip_prompt(cmd, i + 1)

\* CommandCleaner._normalize_echo_env(cmd)
normalize_echo_env(cmd) ==
    LET parsed == shlex_split(cmd) IN
    IF /\ parsed.ok
       /\ Len(parsed.tokens) = 2
       /\ parsed.tokens[1] = <<"e","c","h","o">>
       /\ startswith(parsed.tokens[2], <<"$">>)
    THEN <<"p","r","i","n","t","e","n","v"," ">> \o Tail(parsed.tokens[2])
    ELSE cmd

\* The last step of clean: a one-line command with a "#" in it is tokenised
\* and joined again
rejoin_if_comment(cmd) ==
    IF ~has_char(cmd, "\n") /\ has_char(cmd, "#") /\ shlex_split(cmd).ok
    THEN space_join(shlex_split(cmd).tokens)
    ELSE cmd

\* CommandCleaner.clean(cmd)
clean(cmd) ==
    rejoin_if_comment(
        normalize_echo_env(
            strip_prompt(
                strip_quotes(
                    strip_backticks(
                        remove_code_fences(strip(cmd)))), 1)))

\* No command has been handed to the cleaner
CleanIdle ==
    /\ clean_cmd = <<>>
    /\ clean_outs = <<>>

-----------------------------------------------------------------------------
(* The child-process branch of the runner, step by step: the parts that    *)
(* compute what it returns                                                 *)

\* An interrupt that is always reported as a success
interrupt_result_success(interactive) == <<TRUE, 0, <<>>, <<>>>>

\* An interrupt that is always reported as a failure
interrupt_result_failure(interactive) ==
    <<FALSE, -1, <<>>, Msg("Command interrupted by user.", <<>>)>>

\* What the two except KeyboardInterrupt clauses return
interrupt_result(interactive) ==
    IF interactive
    THEN <<TRUE, 0, <<>>, <<>>>>
    ELSE <<FALSE, -1, <<>>, Msg("Command interrupted by user.", <<>>)>>

\* What the two branches return after the child has been waited for
exit_result(interactive, returncode, out_list, err_list) ==
    IF interactive
    THEN <<TRUE, returncode, <<>>, <<>>>>
    ELSE <<returncode = 0, returncode, Flatten(out_list), Flatten(err_list)>>

\* What the outer except clause returns for the exception text e
failed_result(e) == <<FALSE, -1, <<>>, Msg("Failed to execute command: ", e)>>

\* Line n that a child writes to a stream
ChildLine(stream, n) == <<stream, " ", ToString(n), "\n">>

\* No call of the child-process branch is in progress
RunIdle ==
    /\ run_pc = "idle"
    /\ child_state = "none"
    /\ child_prog = <<>>
    /\ child_code = 0
    /\ pipe_stdout = <<>>
    /\ pipe_stderr = <<>>
    /\ stdout_str_list = <<>>
    /\ stderr_str_list = <<>>
    /\ wrote_stdout = <<>>
    /\ wrote_stderr = <<>>
    /\ terminate_calls = 0
    /\ interrupted_at = "none"

-----------------------------------------------------------------------------
(* The conversation store *)

MAX_OUTPUT_CHARS == 2000
MAX_HISTORY_MESSAGES == 20

RECURSIVE TextLenTo(_, _)
\* The number of characters of the first k pieces of a text
TextLenTo(text, k) ==
    IF k = 0 THEN 0 ELSE TextLenTo(text, k - 1) + Len(text[k])

\* len(text): the number of characters of a text
TextLen(text) == TextLenTo(text, Len(text))

\* An entry without a "metadata" key
NoMetadata == <<>>

(* textwrap.shorten and _truncate work on Python strings; here they work on *)
(* strings too, the text of an output being joined first.  The outputs of   *)
(* the model hold no "-" and no tab, which textwrap treats specially.       *)

RECURSIVE str_join(_, _)
\* sep.join(parts)
str_join(sep, parts) ==
    IF parts = <<>> THEN ""
    ELSE IF Len(parts) = 1 THEN parts[1]
    ELSE parts[1] \o sep \o str_join(sep, Tail(parts))

\* The positions of a string that hold one of the characters
str_positions(s, chars) == {i \in 1..Len(s) : SubSeq(s, i, i) \in chars}

\* needle in s
str_contains(s, needle) ==
    \E i \in 1..(Len(s) - Len(needle) + 1) :
        SubSeq(s, i, i + Len(needle) - 1) = needle

RECURSIVE sorted(_)
\* The numbers of a set in increasing order
sorted(S) ==
    IF S = {} THEN <<>>
    ELSE LET m == CHOOSE x \in S : \A y \in S : x <= y
         IN  <<m>> \o sorted(S \ {m})

\* s.split(sep) for a separator set: the pieces between the separators, as
\* pairs of positions; empty pieces included
str_pieces(s, seps) ==
    LET at == sorted(str_positions(s, seps))
        n == Len(at)
    IN  [k \in 1..(n + 1) |->
            SubSeq(s, IF k = 1 THEN 1 ELSE at[k - 1] + 1,
                      IF k = n + 1 THEN Len(s) ELSE at[k] - 1)]

\* text.split("\n")
str_lines(s) == str_pieces(s, {"\n"})

\* text.split(): the words between runs of whitespace, each from the
\* position where it starts to the position where it ends
str_split(s) ==
    LET ws == str_positions(s, Whitespace)
        word == (1..Len(s)) \ ws
        starts == sorted({i \in word : i = 1 \/ (i - 1) \in ws})
        ends == sorted({i \in word : i = Len(s) \/ (i + 1) \in ws})
    IN  [k \in 1..Len(starts) |-> SubSeq(s, starts[k], ends[k])]

RECURSIVE str_lstrip(_)
\* s.lstrip()
str_lstrip(s) ==
    IF Len(s) > 0 /\ SubSeq(s, 1, 1) \in Whitespace
    THEN str_lstrip(SubSeq(s, 2, Len(s)))
    ELSE s

\* chunk.strip() == "" for a chunk of a collapsed text
blank_chunk(chunk) == chunk = "" \/ chunk = " "

RECURSIVE chunks_of(_)
\* TextWrapper._split on " ".join(words): the words and the single spaces
\* between them
chunks_of(words) ==
    IF Len(words) <= 1 THEN words
    ELSE <<words[1], " ">> \o chunks_of(Tail(words))

RECURSIVE take_chunks(_, _, _, _)
\* The inner loop of _wrap_chunks: chunks go to the line while they fit
take_chunks(chunks, cur_line, cur_len, width) ==
    IF chunks # <<>> /\ cur_len + Len(chunks[1]) <= width
    THEN take_chunks(Tail(chunks), Append(cur_line, chunks[1]),
                     cur_len + Len(chunks[1]), width)
    ELSE [cur_line |-> cur_line, cur_len |-> cur_len, chunks |-> chunks]

\* TextWrapper._handle_long_word with break_long_words: the part of the
\* chunk that fits goes to the line, the rest stays
handle_long_word(l, width) ==
    LET space_left == IF width < 1 THEN 1 ELSE width - l.cur_len
        chunk == l.chunks[1]
    IN  [cur_line |-> Append(l.cur_line, SubSeq(chunk, 1, space_left)),
         cur_len |-> l.cur_len + space_left,
         chunks |-> <<SubSeq(chunk, space_left + 1, Len(chunk))>>
                    \o Tail(l.chunks)]

RECURSIVE place_placeholder(_, _, _, _)
\* The loop of _wrap_chunks that ends the last line allowed: chunks are
\* dropped from its end until the placeholder fits after a word; with no
\* chunk left the line is the placeholder without its leading whitespace
place_placeholder(cur_line, cur_len, width, placeholder) ==
    IF cur_line = <<>> THEN str_lstrip(placeholder)
    ELSE LET last == cur_line[Len(cur_line)] IN
         IF ~blank_chunk(last) /\ cur_len + Len(placeholder) <= width
         THEN str_join("", cur_line) \o placeholder
         ELSE place_placeholder(SubSeq(cur_line, 1, Len(cur_line) - 1),
                                cur_len - Len(last), width, placeholder)

\* TextWrapper(width, max_lines=1, placeholder)._wrap_chunks(chunks), joined:
\* the one line.  The first chunk is a word, so the line is never empty.
wrap_chunks(chunks, width, placeholder) ==
    IF chunks = <<>> THEN ""
    ELSE
    LET taken == take_chunks(chunks, <<>>, 0, width)
        broken == IF taken.chunks # <<>> /\ Len(taken.chunks[1]) > width
                  THEN handle_long_word(taken, width)
                  ELSE taken
        n == Len(broken.cur_line)
        line == IF n > 0 /\ blank_chunk(broken.cur_line[n])
                THEN [broken EXCEPT !.cur_line = SubSeq(broken.cur_line, 1, n - 1),
                                    !.cur_len = broken.cur_len
                                                - Len(broken.cur_line[n])]
                ELSE broken
    IN  IF /\ \/ line.chunks = <<>>
              \/ Len(line.chunks) = 1 /\ blank_chunk(line.chunks[1])
           /\ line.cur_len <= width
        THEN str_join("", line.cur_line)
        ELSE place_placeholder(line.cur_line, line.cur_len, width, placeholder)

\* textwrap.shorten(text, width, placeholder)
shorten(text, width, placeholder) ==
    wrap_chunks(chunks_of(str_split(text)), width, placeholder)

\* A cut at MAX_OUTPUT_CHARS characters with the placeholder added after it
truncate_then_mark(text) ==
    IF TextLen(text) <= MAX_OUTPUT_CHARS THEN text
    ELSE <<SubSeq(str_join("", text), 1, MAX_OUTPUT_CHARS), "\n...[truncated]">>

\* ConversationManager._truncate(text)
truncate(text) ==
    IF TextLen(text) <= MAX_OUTPUT_CHARS THEN text
    ELSE
    LET s == str_join("", text)
        lines == str_lines(s)
        n == Len(lines)
        truncated ==
            str_join("\n", SubSeq(lines, 1, 3) \o <<"...[truncated]...">>
                             \o SubSeq(lines, n - 6, n))
        short ==
            IF /\ \/ str_contains(s, "Error")
                  \/ str_contains(s, "Exception")
                  \/ str_contains(s, "Traceback")
               /\ n > 10
            THEN shorten(truncated, MAX_OUTPUT_CHARS, "...[truncated]")
            ELSE shorten(s, MAX_OUTPUT_CHARS, "\n...[truncated]")
    IN  IF short = "" THEN <<>> ELSE <<short>>

RECURSIVE recalculate_tokens(_)
\* ConversationManager._recalculate_tokens()
recalculate_tokens(h) ==
    IF h = <<>> THEN 0
    ELSE (TextLen(Head(h).content) \div 4) + recalculate_tokens(Tail(h))

\* A trim that keeps the oldest entries
trim_if_needed_keep_oldest(conv) ==
    IF Len(conv.history) > MAX_HISTORY_MESSAGES
    THEN LET kept == SubSeq(conv.history, 1, MAX_HISTORY_MESSAGES)
         IN  [history |-> kept, token_estimate |-> recalculate_tokens(kept)]
    ELSE conv

\* A trim that leaves the token estimate as it was
trim_if_needed_stale(conv) ==
    IF Len(conv.history) > MAX_HISTORY_MESSAGES
    THEN LET messages_to_remove == Len(conv.history) - MAX_HISTORY_MESSAGES
             kept == SubSeq(conv.history, messages_to_remove + 1, Len(conv.history))
         IN  [history |-> kept, token_estimate |-> conv.token_estimate]
    ELSE conv

\* ConversationManager._trim_if_needed()
trim_if_needed(conv) ==
    IF Len(conv.history) > MAX_HISTORY_MESSAGES
    THEN LET messages_to_remove == Len(conv.history) - MAX_HISTORY_MESSAGES
             kept == SubSeq(conv.history, messages_to_remove + 1, Len(conv.history))
         IN  [history |-> kept, token_estimate |-> recalculate_tokens(kept)]
    ELSE conv

\* The entry and the bookkeeping common to the three add methods
conv_append(conv, entry) ==
    trim_if_needed(
        [history |-> Append(conv.history, entry),
         token_estimate |-> conv.token_estimate + (TextLen(entry.content) \div 4)])

UserEntry(content, now) ==
    [role |-> "user", content |-> content, timestamp |-> now,
     metadata |-> NoMetadata]

AssistantEntry(content, now) ==
    [role |-> "assistant", content |-> content, timestamp |-> now,
     metadata |-> NoMetadata]

\* tool_call.get("tool", "unknown")
tool_name_of(tool_call) ==
    IF "tool" \in DOMAIN tool_call THEN tool_call.tool ELSE "unknown"

\* tool_call.get("args", {})
tool_args_of(tool_call) ==
    IF "args" \in DOMAIN tool_call THEN tool_call.args ELSE <<>>

\* args.get(key, default)
arg_get(args, key, default) ==
    IF key \in DOMAIN args THEN args[key] ELSE default

\* The content add_tool_result builds.  execution_time is in whole seconds;
\* 0 is falsy and adds no Time line.
tool_result_content(tool_call, output, success, execution_time) ==
    LET tool_name == tool_name_of(tool_call)
        tool_args == tool_args_of(tool_call)
        time_part == IF execution_time # 0
                     THEN <<"\nTime: ", ToString(execution_time), ".00s">>
                     ELSE <<>>
        what_part == IF tool_name = "shell_command"
                     THEN <<"\nCommand: ">> \o arg_get(tool_args, "command", <<"N/A">>)
                     ELSE IF tool_name \in {"read_file", "write_file"}
                     THEN <<"\nPath: ">> \o arg_get(tool_args, "path", <<"N/A">>)
                     ELSE <<>>
    IN  <<"[Tool Execution Result]\n", "Tool: ", tool_name,
          "\nStatus: ", IF success THEN "Success" ELSE "Failure">>
        \o time_part \o what_part
        \o <<"\n\nOutput:\n^^^\n">> \o truncate(output) \o <<"\n^^^">>

ToolResultEntry(tool_call, output, success, execution_time, now) ==
    [role |-> "assistant",
     content |-> tool_result_content(tool_call, output, success, execution_time),
     timestamp |-> now,
     metadata |-> <<[tool |-> tool_name_of(tool_call), success |-> success,
                     execution_time |-> execution_time]>>]

\* ConversationManager.add_user_message(content)
add_user_message(conv, content, now) ==
    conv_append(conv, UserEntry(content, now))

\* ConversationManager.add_assistant_message(content)
add_assistant_message(conv, content, now) ==
    conv_append(conv, AssistantEntry(content, now))

\* ConversationManager.add_tool_result(tool_call, output, success, execution_time)
add_tool_result(conv, tool_call, output, success, execution_time, now) ==
    conv_append(conv, ToolResultEntry(tool_call, output, success, execution_time, now))

\* ConversationManager.clear()
conv_clear == [history |-> <<>>, token_estimate |-> 0]

\* msg.get("metadata", {}).get("tool"), as a truth value: the entry has
\* metadata and its tool name is not empty
has_tool(msg) == msg.metadata # NoMetadata /\ msg.metadata[1].tool # ""

\* ConversationManager.get_summary()
get_summary(conv) ==
    LET count(test(_)) ==
            Cardinality({i \in 1..Len(conv.history) : test(conv.history[i])})
        is_user(msg) == msg.role = "user"
        is_assistant(msg) == msg.role = "assistant"
    IN  [total_messages |-> Len(conv.history),
         tool_calls |-> count(has_tool),
         estimated_tokens |-> conv.token_estimate,
         user_messages |-> count(is_user),
         assistant_messages |-> count(is_assistant)]

\* ConversationManager()
ConvInit ==
    /\ history = <<>>
    /\ token_estimate = 0
    /\ clock = 0
    /\ appended = <<>>
    /\ special_used = 0
    /\ clears_used = 0

Conv == [history |-> history, token_estimate |-> token_estimate]

-----------------------------------------------------------------------------
(* The files of the file system and the file tools *)

\* The components of an absolute path, normalised
path_key(path) == norm_comps(path_split(path), <<>>, 1)

F_text == <<"d", "a", "t", "a">>
F_secret == <<"k", "e", "y">>

\* The regular files the process starts with: a text file, a file that is
\* not valid UTF-8 and a file without permissions in the start directory, and
\* a text file outside of it
FilesAtStart ==
    (<<C_s, <<"f">>>> :> [kind |-> "text", content |-> F_text])
    @@ (<<C_s, <<"b">>>> :> [kind |-> "binary", content |-> <<>>])
    @@ (<<C_s, <<"p">>>> :> [kind |-> "protected", content |-> <<>>])
    @@ (<<C_o, <<"k">>>> :> [kind |-> "text", content |-> F_secret])

FilesInit == files = FilesAtStart

\* os.path.isfile(path) for an absolute path
isfile(fs, path) == path_key(path) \in DOMAIN fs

\* ToolResult(success, output, error="")
ToolResult(success, output, error) ==
    [success |-> success, output |-> output, error |-> error]

\* os.linesep on the platform the process runs on (POSIX)
linesep == <<"\n">>

\* What f.write(text) stores when the file was opened in text mode with the
\* default newline argument: every "\n" becomes os.linesep
write_newlines(text) ==
    Flatten([i \in 1..Len(text) |->
                IF text[i] = "\n" THEN linesep ELSE <<text[i]>>])

\* What f.read() returns for the stored text when the file was opened in
\* text mode with the default newline argument (universal newlines): "\r\n"
\* and a lone "\r" both become "\n"
RECURSIVE read_newlines(_)
read_newlines(data) ==
    IF data = <<>> THEN <<>>
    ELSE IF data[1] = "\r"
    THEN <<"\n">>
         \o read_newlines(IF Len(data) >= 2 /\ data[2] = "\n"
                          THEN SubSeq(data, 3, Len(data))
                          ELSE Tail(data))
    ELSE <<data[1]>> \o read_newlines(Tail(data))

\* FileTools.read_file(session, path)
read_file(s_cwd, fs, path) ==
    LET file_path == abspath(path_join(s_cwd, path), StartDir) IN
    IF ~isfile(fs, file_path)
    THEN ToolResult(FALSE, <<>>,
                    <<"Error: '">> \o path \o <<"' is not a file.">>)
    ELSE IF fs[path_key(file_path)].kind = "protected"
    THEN ToolResult(FALSE, <<>>,
                    <<"Error: Permission denied reading '">> \o path \o <<"'.">>)
    ELSE IF fs[path_key(file_path)].kind = "binary"
    THEN ToolResult(FALSE, <<>>,
                    <<"Error: '">> \o path
                    \o <<"' is not a text file or has invalid encoding.">>)
    ELSE ToolResult(TRUE, read_newlines(fs[path_key(file_path)].content), <<>>)

\* open(file_path, "w"): <<>> when the file can be opened for writing, the
\* text of the OSError otherwise
open_for_write_error(fs, file_path) ==
    LET key == path_key(file_path) IN
    IF key \in Dirs
    THEN <<"[Errno 21] Is a directory: '">> \o file_path \o <<"'">>
    ELSE IF SubSeq(key, 1, Len(key) - 1) \in DOMAIN fs
    THEN <<"[Errno 20] Not a directory: '">> \o file_path \o <<"'">>
    ELSE IF SubSeq(key, 1, Len(key) - 1) \notin Dirs
    THEN <<"[Errno 2] No such file or directory: '">> \o file_path \o <<"'">>
    ELSE IF key \in DOMAIN fs /\ fs[key].kind = "protected"
    THEN <<"[Errno 13] Permission denied: '">> \o file_path \o <<"'">>
    ELSE <<>>

\* The part of write_file after the security check: the file is opened for
\* writing, which truncates it, and the content is written
write_file_open(fs, path, file_path, content) ==
    LET os_error == open_for_write_error(fs, file_path) IN
    IF os_error # <<>>
    THEN [result |-> ToolResult(FALSE, <<>>,
                                Msg("Error writing to file: ", os_error)),
          files |-> fs]
    ELSE [result |-> ToolResult(TRUE, Msg("Successfully wrote to ", path), <<>>),
          files |-> (path_key(file_path)
                        :> [kind |-> "text", content |-> write_newlines(content)])
                    @@ fs]

\* write_file without its security check
write_file_unchecked(s_root, s_cwd, fs, path, content) ==
    write_file_open(fs, path, abspath(path_join(s_cwd, path), StartDir), content)

\* FileTools.write_file(session, path, content): the result and the files it
\* leaves
write_file(s_root, s_cwd, fs, path, content) ==
    LET file_path == abspath(path_join(s_cwd, path), StartDir)
        common == commonpath(s_root, file_path)
    IN  IF ~common.ok
        THEN [result |-> ToolResult(FALSE, <<>>,
                  Msg("Error writing to file: ",
                      <<"Can't mix absolute and relative paths">>)),
              files |-> fs]
        ELSE IF common.path # s_root
        THEN [result |-> ToolResult(FALSE, <<>>,
                  <<"Error: Attempt to write outside of sandbox to '">>
                  \o path \o <<"'.">>),
              files |-> fs]
        ELSE write_file_open(fs, path, file_path, content)

-----------------------------------------------------------------------------
(* The tool dispatcher *)

\* tool_call.get("tool"): None when the key is missing
tool_get(tool_call) ==
    IF "tool" \in DOMAIN tool_call THEN tool_call.tool ELSE "None"

\* The outcome of a tool that touches neither the session nor the files
tool_outcome(result, s_cwd, fs) ==
    [result |-> result, cwd |-> s_cwd, spawned |-> 0, files |-> fs]

\* The shell_command branch of ToolExecutor.execute, for a command that is
\* not empty
execute_shell(s_root, s_cwd, s_home, fs, tool_call, profile) ==
    LET command == arg_get(tool_args_of(tool_call), "command", <<>>) IN
    {[result |-> ToolResult(r.res[1],
                            IF r.res[1] THEN r.res[3] ELSE r.res[4],
                            <<>>),
      cwd |-> r.cwd, spawned |-> r.spawned, files |-> fs] :
        r \in run_safe_command(s_root, s_cwd, s_home, command, profile)}

\* The dispatcher without its tests for an empty command and an empty path
execute_unvalidated(s_root, s_cwd, s_home, fs, tool_call, profile) ==
    LET tool_name == tool_get(tool_call)
        tool_args == tool_args_of(tool_call)
    IN  IF tool_name = "read_file"
        THEN {tool_outcome(read_file(s_cwd, fs, arg_get(tool_args, "path", <<>>)),
                           s_cwd, fs)}
        ELSE IF tool_name = "shell_command"
        THEN execute_shell(s_root, s_cwd, s_home, fs, tool_call, profile)
        ELSE IF tool_name = "write_file"
        THEN LET w == write_file(s_root, s_cwd, fs,
                                 arg_get(tool_args, "path", <<>>),
                                 arg_get(tool_args, "content", <<>>))
             IN  {[result |-> w.result, cwd |-> s_cwd, spawned |-> 0,
                   files |-> w.files]}
        ELSE {tool_outcome(ToolResult(FALSE, <<>>,
                               <<"Error: Unknown tool '", tool_name, "'">>),
                           s_cwd, fs)}

\* ToolExecutor.execute(session, tool_call, safety_profile): the set of its
\* possible outcomes, each the ToolResult, the cwd and the files it leaves
\* and the number of Popen calls it made
execute(s_root, s_cwd, s_home, fs, tool_call, profile) ==
    LET tool_name == tool_get(tool_call)
        tool_args == tool_args_of(tool_call)
    IN  IF tool_name = "read_file"
        THEN {tool_outcome(read_file(s_cwd, fs, arg_get(tool_args, "path", <<>>)),
                           s_cwd, fs)}
        ELSE IF tool_name = "shell_command"
        THEN IF arg_get(tool_args, "command", <<>>) = <<>>
             THEN {tool_outcome(ToolResult(FALSE, <<>>,
                                           <<"Error: No command provided">>),
                                s_cwd, fs)}
             ELSE execute_shell(s_root, s_cwd, s_home, fs, tool_call, profile)
        ELSE IF tool_name = "write_file"
        THEN IF arg_get(tool_args, "path", <<>>) = <<>>
             THEN {tool_outcome(ToolResult(FALSE, <<>>,
                                    <<"Error: No path provided for write_file">>),
                                s_cwd, fs)}
             ELSE LET w == write_file(s_root, s_cwd, fs,
                                      arg_get(tool_args, "path", <<>>),
                                      arg_get(tool_args, "content", <<>>))
                  IN  {[result |-> w.result, cwd |-> s_cwd, spawned |-> 0,
                        files |-> w.files]}
        ELSE {tool_outcome(ToolResult(FALSE, <<>>,
                               <<"Error: Unknown tool '", tool_name, "'">>),
                           s_cwd, fs)}

-----------------------------------------------------------------------------
(* The command processor: its data and the pure parts of its methods *)

MAX_TOOL_CALLS_PER_QUERY == 5
MAX_ERROR_RECOVERY_DEPTH == 2

\* None, and the empty dict: both are falsy
None == <<>>
NoSuggestion == None
NoResult == None

\* AISuggestion(explanation, command, tool_call)
AISuggestion(explanation, command, tc) ==
    [explanation |-> explanation, command |-> command, tool_call |-> tc]

\* ToolExecutionResult(success, output, error, execution_time, tool_name)
ToolExecutionResult(result, execution_time, tool_name) ==
    [success |-> result.success, output |-> result.output,
     error |-> result.error, execution_time |-> execution_time,
     tool_name |-> tool_name]

\* A prompt handed to the collaborator: the user's text, a fixed text of the
\* loop, or an error context, which embeds a tool call and an error output
Prompt(kind, text, tc, error_output) ==
    [kind |-> kind, text |-> text, tool_call |-> tc,
     error_output |-> error_output]

QueryPrompt(text) == Prompt("query", text, None, <<>>)

SuccessPrompt ==
    Prompt("success",
           <<"Tool executed successfully. Analyze results and proceed.">>,
           None, <<>>)

\* CommandProcessor._build_error_context(tool_call, error_output)
build_error_context(tc, error_output) ==
    Prompt("error_context", <<"The following tool call failed.">>, tc,
           error_output)

\* CommandProcessor._should_execute_tool(): whether a tool may be executed
should_execute_tool(remaining) == ~(remaining <= 0)

\* A budget that no tool call uses up
decrement_nothing(remaining) == remaining

\* self._tool_calls_remaining -= 1
decrement_tool_calls(remaining) == remaining - 1

\* A recovery cap that is never reached
recovery_cap_never(depth) == FALSE

\* self._error_recovery_depth >= self.MAX_ERROR_RECOVERY_DEPTH
recovery_cap_reached(depth) == depth >= MAX_ERROR_RECOVERY_DEPTH

\* The tool call process_direct_command builds for its command
DirectToolCall(command) ==
    [tool |-> "shell_command", args |-> [command |-> command]]

\* CommandProcessor(console, session, settings, conversation)
ProcInit ==
    /\ settings_safety_profile = "standard"
    /\ state = "idle"
    /\ tool_calls_remaining = MAX_TOOL_CALLS_PER_QUERY
    /\ error_recovery_depth = 0
    /\ pc = "idle"
    /\ query = None
    /\ current_prompt = None
    /\ suggestion = NoSuggestion
    /\ last_tool_call = None
    /\ exec_result = NoResult
    /\ final_explanation = <<>>
    /\ executed = 0
    /\ requests = <<>>
    /\ tools_run = 0
    /\ queries = 0
    /\ proposed = 0

\* No reply of the collaborator yet
ReplyIdle == reply = <<>>

-----------------------------------------------------------------------------
(* The response parser: re.search for the fenced JSON object, json.loads on *)
(* it, and the AISuggestion built from the outcome.  The JSON texts of the  *)
(* model are built from objects and strings.                                *)

RECURSIVE join(_)
\* The characters of a text as one string
join(s) == IF s = <<>> THEN "" ELSE Head(s) \o join(Tail(s))

\* A JSON string and a JSON object as Python values: a str and a dict
JsonStr(chars) == [t |-> "str", v |-> chars]
JsonObj(dict) == [t |-> "obj", v |-> dict]

\* dict[key] = value
dict_set(dict, key, value) ==
    [k \in DOMAIN dict \cup {key} |-> IF k = key THEN value ELSE dict[k]]

\* str(JSONDecodeError(msg, doc, pos)), pos counted from 1 here
JSONDecodeError(msg, doc, pos) ==
    LET newlines == {j \in 1..(pos - 1) : j <= Len(doc) /\ doc[j] = "\n"}
        last == IF newlines = {} THEN 0
                ELSE CHOOSE j \in newlines : \A k \in newlines : k <= j
    IN  [ok |-> FALSE,
         msg |-> <<msg, ": line ", ToString(Cardinality(newlines) + 1),
                   " column ", ToString(pos - last),
                   " (char ", ToString(pos - 1), ")">>]

JsonOk(value, next) == [ok |-> TRUE, value |-> value, next |-> next]

JsonWhitespace == {" ", "\t", "\n", "\r"}

RECURSIVE json_skip(_, _)
\* WHITESPACE.match(s, i).end()
json_skip(s, i) ==
    IF i <= Len(s) /\ s[i] \in JsonWhitespace THEN json_skip(s, i + 1) ELSE i

\* The characters a backslash may be followed by, and what each stands for
JsonEscapes ==
    [c \in {"\"", "\\", "/", "n", "t", "r"} |->
        CASE c = "n" -> "\n" [] c = "t" -> "\t" [] c = "r" -> "\r"
          [] OTHER -> c]

RECURSIVE scanstring(_, _, _, _)
\* json.decoder.scanstring(s, end) in strict mode: i is the position after the
\* opening quote at begin
scanstring(s, begin, i, acc) ==
    IF i > Len(s)
    THEN JSONDecodeError("Unterminated string starting at", s, begin)
    ELSE IF s[i] = "\"" THEN JsonOk(JsonStr(acc), i + 1)
    ELSE IF s[i] \in {"\n", "\t", "\r"}
    THEN JSONDecodeError("Invalid control character at", s, i)
    ELSE IF s[i] = "\\"
    THEN IF i + 1 > Len(s)
         THEN JSONDecodeError("Unterminated string starting at", s, begin)
         ELSE IF s[i + 1] \in DOMAIN JsonEscapes
         THEN scanstring(s, begin, i + 2, Append(acc, JsonEscapes[s[i + 1]]))
         ELSE JSONDecodeError("Invalid \\escape", s, i)
    ELSE scanstring(s, begin, i + 1, Append(acc, s[i]))

RECURSIVE scan_once(_, _)
RECURSIVE JSONObject(_, _, _)

\* json.scanner's _scan_once(string, idx)
scan_once(s, i) ==
    IF i > Len(s) THEN JSONDecodeError("Expecting value", s, i)
    ELSE IF s[i] = "\"" THEN scanstring(s, i, i + 1, <<>>)
    ELSE IF s[i] = "{"
    THEN LET j == json_skip(s, i + 1) IN
         IF j <= Len(s) /\ s[j] = "}" THEN JsonOk(JsonObj(<<>>), j + 1)
         ELSE JSONObject(s, j, <<>>)
    ELSE JSONDecodeError("Expecting value", s, i)

\* json.decoder.JSONObject from the place where a property name is due: the
\* pairs are read one after the other, a later key replacing an earlier one
JSONObject(s, i, pairs) ==
    IF i > Len(s) \/ s[i] # "\""
    THEN JSONDecodeError("Expecting property name enclosed in double quotes",
                         s, i)
    ELSE LET key == scanstring(s, i, i + 1, <<>>) IN
         IF ~key.ok THEN key
         ELSE LET c == json_skip(s, key.next) IN
         IF c > Len(s) \/ s[c] # ":"
         THEN JSONDecodeError("Expecting ':' delimiter", s, c)
         ELSE LET value == scan_once(s, json_skip(s, c + 1)) IN
         IF ~value.ok THEN value
         ELSE LET d == json_skip(s, value.next)
                  now == dict_set(pairs, join(key.value.v), value.value)
              IN
         IF d <= Len(s) /\ s[d] = "}" THEN JsonOk(JsonObj(now), d + 1)
         ELSE IF d > Len(s) \/ s[d] # ","
         THEN JSONDecodeError("Expecting ',' delimiter", s, d)
         ELSE JSONObject(s, json_skip(s, d + 1), now)

\* json.loads(s)
json_loads(s) ==
    LET obj == scan_once(s, json_skip(s, 1)) IN
    IF ~obj.ok THEN obj
    ELSE LET end == json_skip(s, obj.next) IN
         IF end <= Len(s) THEN JSONDecodeError("Extra data", s, end)
         ELSE obj

FenceJson == <<Backtick, Backtick, Backtick, "j", "s", "o", "n">>

\* s[i:].startswith(prefix), i counted from 1
startswith_at(s, i, prefix) ==
    /\ i + Len(prefix) - 1 <= Len(s)
    /\ SubSeq(s, i, i + Len(prefix) - 1) = prefix

RECURSIVE skip_space(_, _)
\* The end of \s* from position i
skip_space(s, i) ==
    IF i <= Len(s) /\ s[i] \in Whitespace THEN skip_space(s, i + 1) ELSE i

\* re.search(r"```json\s*(\{.*?\})\s*```", text, re.DOTALL): the leftmost
\* opening fence followed by a brace from which some closing brace is followed
\* by a closing fence, and from it the nearest such closing brace
json_search(text) ==
    LET closes(b) == {e \in (b + 1)..Len(text) :
                        /\ text[e] = "}"
                        /\ startswith_at(text, skip_space(text, e + 1), Fence)}
        opens == {a \in 1..Len(text) :
                    /\ startswith_at(text, a, FenceJson)
                    /\ LET b == skip_space(text, a + Len(FenceJson)) IN
                       /\ b <= Len(text)
                       /\ text[b] = "{"
                       /\ closes(b) # {}}
    IN  IF opens = {} THEN None
        ELSE LET a == CHOOSE x \in opens : \A y \in opens : x <= y
                 b == skip_space(text, a + Len(FenceJson))
                 e == CHOOSE x \in closes(b) : \A y \in closes(b) : x <= y
             IN  <<[start |-> a, group_start |-> b, group_end |-> e,
                    end |-> skip_space(text, e + 1) + Len(Fence)]>>

\* A Python value of the parsed JSON as the model writes it elsewhere: a str
\* is its characters, a dict a function of its keys
RECURSIVE plain(_)
plain(value) ==
    IF value.t = "str" THEN value.v
    ELSE [k \in DOMAIN value.v |-> plain(value.v[k])]

\* The dict kept as AISuggestion.tool_call, the name of the tool as one string
\* as in every tool call of the model
tool_call_of(data, command_set) ==
    [k \in DOMAIN data |->
        IF k = "tool" /\ data[k].t = "str" THEN join(data[k].v)
        ELSE IF k = "args" /\ command_set # None
        THEN dict_set(plain(data[k]), "command", command_set[1])
        ELSE plain(data[k])]

\* An exception that leaves ResponseParser.parse
Raised(e) == [raised |-> TRUE, error |-> e]
Returned(s) == [raised |-> FALSE, suggestion |-> s]

\* The try block of ResponseParser.parse once json.loads has returned data
\* (l.101-124)
parse_tool_call(text, block, explanation, data) ==
    LET tool_type == IF "tool" \in DOMAIN data /\ data["tool"].t = "str"
                     THEN data["tool"].v ELSE <<>>
        args == IF "args" \in DOMAIN data THEN data["args"] ELSE JsonObj(<<>>)
        get(key, default) ==
            IF key \in DOMAIN args.v THEN args.v[key] ELSE default
        trailing == strip(SubSeq(text, block.end, Len(text)))
        explained == IF trailing # <<>>
                     THEN strip(explanation \o <<"\n", "\n">> \o trailing)
                     ELSE explanation
        NoGet == Raised(<<"'str' object has no attribute 'get'">>)
    IN  IF tool_type = <<"s","h","e","l","l","_","c","o","m","m","a","n","d">>
        THEN IF args.t # "obj" THEN NoGet
             ELSE LET raw_cmd == get("command", JsonStr(<<>>)) IN
             IF raw_cmd.t # "str"
             THEN Raised(<<"'dict' object has no attribute 'strip'">>)
             ELSE IF "args" \notin DOMAIN data THEN Raised(<<"'args'">>)
             ELSE Returned(AISuggestion(explained, clean(raw_cmd.v),
                               tool_call_of(data, <<clean(raw_cmd.v)>>)))
        ELSE IF tool_type = <<"r","e","a","d","_","f","i","l","e">>
        THEN IF args.t # "obj" THEN NoGet
             ELSE Returned(AISuggestion(explained,
                               IF "path" \in DOMAIN args.v
                               THEN plain(args.v["path"]) ELSE None,
                               tool_call_of(data, None)))
        ELSE IF tool_type = <<"w","r","i","t","e","_","f","i","l","e">>
        THEN IF args.t # "obj" THEN NoGet
             ELSE Returned(AISuggestion(explained,
                               IF "path" \in DOMAIN args.v
                               THEN plain(args.v["path"]) ELSE None,
                               tool_call_of(data, None)))
        ELSE Returned(AISuggestion(explained, None, tool_call_of(data, None)))

\* A parser that takes the fenced text for a tool call whether it parses or not
parse_error_as_tool_call(explanation, json_raw, e) ==
    AISuggestion(explanation, None, [tool |-> join(json_raw)])

\* The except branch of ResponseParser.parse (l.126-130)
parse_error(explanation, json_raw, e) ==
    AISuggestion(explanation \o <<"\n", "\n", "[Error parsing tool JSON: ">>
                             \o e \o <<"]">>,
                 None, None)

\* ResponseParser.parse(text)
parse(response) ==
    LET text == strip(response)
        found == json_search(text)
    IN  IF found = None THEN Returned(AISuggestion(text, None, None))
        ELSE LET block == found[1]
                 explanation == strip(SubSeq(text, 1, block.start - 1))
                 json_raw == strip(SubSeq(text, block.group_start,
                                          block.group_end))
                 loaded == json_loads(json_raw)
             IN  IF loaded.ok
                 THEN parse_tool_call(text, block, explanation, loaded.value.v)
                 ELSE Returned(parse_error(explanation, json_raw, loaded.msg))

\* MistralBackend.suggest once the collaborator has replied: any exception
\* out of parse becomes a suggestion without a tool call
suggest(response) ==
    LET parsed == parse(response) IN
    IF parsed.raised
    THEN AISuggestion(<<"Unexpected error: ">> \o parsed.error, None, None)
    ELSE parsed.suggestion

-----------------------------------------------------------------------------
(* Specification of the safety gate alone: every command built from a few  *)
(* pieces, under every profile                                             *)

GatePieces ==
    {W_rm, <<"R","m">>, W_cd, W_dd, <<"-">>, <<" ">>, <<"'">>, <<"x">>, <<" ","x">>}

RECURSIVE PieceSeqs(_)
PieceSeqs(n) ==
    IF n = 0 THEN {<<>>}
    ELSE LET shorter == PieceSeqs(n - 1)
         IN  shorter \cup {Append(ps, p) : ps \in shorter, p \in GatePieces}

GateCommands == {Flatten(ps) : ps \in PieceSeqs(MaxPieces)}

\* Session(sandbox_root): the session of a process started in StartDir
SessionInit ==
    /\ sandbox_root = abspath(StartDir, StartDir)
    /\ cwd = sandbox_root

NoCall == [op |-> "none", arg |-> <<>>, profile |-> "standard"]

CallInit ==
    /\ sess_call = NoCall
    /\ run_res = <<>>
    /\ spawned = 0

GateIdle ==
    /\ gate_cmd = <<>>
    /\ gate_profile = "standard"
    /\ gate_res = <<>>

GateInit ==
    /\ gate_cmd \in GateCommands
    /\ gate_profile = "standard"
    /\ gate_res = <<>>
    /\ SessionInit
    /\ home = <<"/", "o">>
    /\ CallInit
    /\ ConvInit
    /\ FilesInit
    /\ ProcInit
    /\ RunIdle
    /\ CleanIdle
    /\ ReplyIdle

GateCheck ==
    /\ gate_res = <<>>
    /\ \E p \in Profiles :
          /\ gate_profile' = p
          /\ gate_res' = is_safe_command(gate_cmd, p)
    /\ UNCHANGED <<gate_cmd, sessVars, callVars, convVars, convBudget, files, procVars,
                   runVars, cleanVars, replyVars>>

GateNext == GateCheck

SpecGate == GateInit /\ [][GateNext]_vars

(* Specification of the profiles: one command checked under a profile name *)
(* a caller can pass                                                        *)

ProfilePieces ==
    {W_rm, W_dd, <<"D","d">>, W_chgrp, W_cd, <<";">>, <<"-">>, <<" ">>, <<"x">>}

RECURSIVE ProfilePieceSeqs(_)
ProfilePieceSeqs(n) ==
    IF n = 0 THEN {<<>>}
    ELSE LET shorter == ProfilePieceSeqs(n - 1)
         IN  shorter \cup {Append(ps, p) : ps \in shorter, p \in ProfilePieces}

ProfileCommands == {Flatten(ps) : ps \in ProfilePieceSeqs(MaxProfilePieces)}

ProfileInit ==
    /\ gate_cmd \in ProfileCommands
    /\ gate_profile = "standard"
    /\ gate_res = <<>>
    /\ SessionInit
    /\ home = <<"/", "o">>
    /\ CallInit
    /\ ConvInit
    /\ FilesInit
    /\ ProcInit
    /\ RunIdle
    /\ CleanIdle
    /\ ReplyIdle

\* is_safe_command(command, safety_profile) called with any profile name
ProfileCheck ==
    /\ gate_res = <<>>
    /\ \E name \in ProfileNames :
          /\ gate_profile' = name
          /\ gate_res' = is_safe_command(gate_cmd, name)
    /\ UNCHANGED <<gate_cmd, sessVars, callVars, convVars, convBudget, files, procVars,
                   runVars, cleanVars, replyVars>>

ProfileNext == ProfileCheck

SpecProfiles == ProfileInit /\ [][ProfileNext]_vars

(* Claims about the safety gate *)

GateChecked == gate_res # <<>>
GateParsed == shlex_split(gate_cmd)
GateTokens == GateParsed.tokens

\* Token i of the checked command is, in lower case, a forbidden word of the
\* checked profile or starts with one followed by "-"
GateTokenForbidden(i) ==
    \E w \in get_forbidden_words(gate_profile) :
        \/ lower(GateTokens[i]) = w
        \/ startswith(lower(GateTokens[i]), w \o <<"-">>)

GateHasForbidden ==
    /\ GateParsed.ok
    /\ \E i \in 1..Len(GateTokens) : GateTokenForbidden(i)

GateFirstIsCd ==
    /\ GateParsed.ok
    /\ GateTokens # <<>>
    /\ GateTokens[1] = W_cd

\* C9: a tokenizable command holding, in any letter case, a token equal to a
\* forbidden word of the profile, or starting with one followed by "-", is
\* rejected with a reason containing "forbidden word".
C9_ForbiddenTokenRejected ==
    (GateChecked /\ GateHasForbidden) =>
        /\ gate_res[1] = FALSE
        /\ gate_res[2] # <<>>
        /\ gate_res[2][1] = "Command contains forbidden word: "

\* C9 witness: a command with an upper-case spelling of a forbidden word fused
\* with a flag ("Rm-...") has been checked and rejected.
C9_Witness ==
    /\ GateChecked
    /\ GateParsed.ok
    /\ \E i \in 1..Len(GateTokens) :
          /\ GateTokenForbidden(i)
          /\ lower(GateTokens[i]) # GateTokens[i]
          /\ Len(GateTokens[i]) > 2
    /\ gate_res[1] = FALSE

\* C10 as stated: a command whose first token is cd is accepted with at most
\* one argument and rejected with "cd supports at most one argument" with
\* more, whatever its other tokens are.
C10_CdNeverForbidden ==
    (GateChecked /\ GateFirstIsCd) =>
        IF Len(GateTokens) <= 2
        THEN gate_res = <<TRUE, NoMsg>>
        ELSE gate_res = <<FALSE, Msg("cd supports at most one argument.", <<>>)>>

\* C10 amended: a command whose first token is cd and none of whose tokens
\* matches a forbidden word of the profile is accepted with at most one
\* argument and rejected with "cd supports at most one argument" with more.
C10_CdRule ==
    (GateChecked /\ GateFirstIsCd /\ ~GateHasForbidden) =>
        IF Len(GateTokens) <= 2
        THEN gate_res = <<TRUE, NoMsg>>
        ELSE gate_res = <<FALSE, Msg("cd supports at most one argument.", <<>>)>>

\* C10 witness: a cd command with two arguments and no forbidden token has
\* been checked.
C10_Witness ==
    /\ GateChecked
    /\ GateFirstIsCd
    /\ ~GateHasForbidden
    /\ Len(GateTokens) = 3
    /\ gate_res[1] = FALSE

\* C11: under every safety profile, a tokenizable command whose first token
\* is cd and that has more than one argument is rejected.
C11_CdManyArgsRejected ==
    (GateChecked /\ GateFirstIsCd /\ Len(GateTokens) > 2) =>
        gate_res[1] = FALSE

\* C11 witness: cd with three arguments, none of them forbidden, has been
\* rejected under the lenient profile.
C11_Witness ==
    /\ GateChecked
    /\ GateFirstIsCd
    /\ ~GateHasForbidden
    /\ Len(GateTokens) = 4
    /\ gate_profile = "lenient"
    /\ gate_res = <<FALSE, Msg("cd supports at most one argument.", <<>>)>>

-----------------------------------------------------------------------------
(* Specification of the session and the command runner: any sequence of    *)
(* change_directory and run_safe_command calls                             *)

PathPieces ==
    {<<"/">>, <<".", ".", "/">>, DotDot, <<".">>, C_a, C_s, C_o}

RECURSIVE PathPieceSeqs(_)
PathPieceSeqs(n) ==
    IF n = 0 THEN {<<>>}
    ELSE LET shorter == PathPieceSeqs(n - 1)
         IN  shorter \cup {Append(ps, p) : ps \in shorter, p \in PathPieces}

PathStrings == {Flatten(ps) : ps \in PathPieceSeqs(MaxPathPieces)}

CdCommands == {W_cd} \cup {W_cd \o <<" ">> \o path : path \in PathStrings}

OtherCommands ==
    {<<"l","s">>,
     <<"r","m"," ","-","r","f"," ","/">>,
     <<"R","M"," ","x">>,
     <<"v","i"," ","x">>,
     <<"c","d"," ","a"," ","s">>,
     <<"c","d"," ","a"," ","r","m">>,
     <<"c","d"," ","'","'">>,
     <<"c","d"," ","a",";">>,
     <<" "," ">>,
     <<"l","s"," ","'">>}

SessCommands == CdCommands \cup OtherCommands

SessInit ==
    /\ SessionInit
    /\ home \in HomeDirs
    /\ CallInit
    /\ GateIdle
    /\ ConvInit
    /\ FilesInit
    /\ ProcInit
    /\ RunIdle
    /\ CleanIdle
    /\ ReplyIdle

CallIdle == sess_call.op = "none"

\* The caller hands a command to run_safe_command
CallRun ==
    /\ CallIdle
    /\ \E command \in SessCommands, p \in Profiles :
          sess_call' = [op |-> "run", arg |-> command, profile |-> p]
    /\ run_res' = <<>>
    /\ spawned' = 0
    /\ UNCHANGED <<sessVars, gateVars, convVars, convBudget, files, procVars,
                   runVars, cleanVars, replyVars>>

\* The caller hands a path to Session.change_directory
CallCd ==
    /\ CallIdle
    /\ \E path \in PathStrings :
          sess_call' = [op |-> "cd", arg |-> path, profile |-> "standard"]
    /\ run_res' = <<>>
    /\ spawned' = 0
    /\ UNCHANGED <<sessVars, gateVars, convVars, convBudget, files, procVars,
                   runVars, cleanVars, replyVars>>

\* run_safe_command runs to its return
DoRun ==
    /\ sess_call.op = "run"
    /\ run_res = <<>>
    /\ \E r \in run_safe_command(sandbox_root, cwd, home, sess_call.arg,
                                  sess_call.profile) :
          /\ run_res' = r.res
          /\ cwd' = r.cwd
          /\ spawned' = r.spawned
    /\ sess_call' = NoCall
    /\ UNCHANGED <<sandbox_root, home, gateVars, convVars, convBudget, files, procVars,
                   runVars, cleanVars, replyVars>>

\* Session.change_directory runs to its return
DoCd ==
    /\ sess_call.op = "cd"
    /\ run_res = <<>>
    /\ LET r == change_directory(sandbox_root, cwd, sess_call.arg)
       IN  /\ run_res' = <<r.ok, r.msg>>
           /\ cwd' = r.cwd
    /\ sess_call' = NoCall
    /\ UNCHANGED <<sandbox_root, home, spawned, gateVars, convVars, convBudget, files, procVars,
                   runVars, cleanVars, replyVars>>

SessNext == CallRun \/ CallCd \/ DoRun \/ DoCd

SpecSession == SessInit /\ [][SessNext]_vars

(* Claims about the session and the runner *)

\* The directory named by path is dir or lies below it
DirWithin(path, dir) ==
    LET p_key == path_key(path)
        d_key == path_key(dir)
    IN  /\ Len(d_key) <= Len(p_key)
        /\ SubSeq(p_key, 1, Len(d_key)) = d_key

C7_RejectedNoEffect ==
    [][(/\ sess_call.op = "run"
        /\ run_res = <<>>
        /\ run_res' # <<>>
        /\ ~is_safe_command(sess_call.arg, sess_call.profile)[1])
       => (/\ run_res' = <<FALSE, -1, <<>>,
                           is_safe_command(sess_call.arg, sess_call.profile)[2]>>
           /\ spawned' = 0
           /\ cwd' = cwd)]_vars

\* C7 witness: a command with the forbidden word rm has been refused while
\* the session was below the root.
C7_Witness ==
    /\ Len(run_res) = 4
    /\ run_res = <<FALSE, -1, <<>>, Msg("Command contains forbidden word: ", W_rm)>>
    /\ spawned = 0
    /\ cwd # sandbox_root

\* run_safe_command is returning from the command it was handed
RunReturns ==
    /\ sess_call.op = "run"
    /\ run_res = <<>>
    /\ run_res' # <<>>

\* The words of the command, <<>> when it cannot be tokenised
CommandWords(command) ==
    IF shlex_split(command).ok THEN shlex_split(command).tokens ELSE <<>>

\* The command's first word is cd
IsCd(command) ==
    CommandWords(command) # <<>> /\ CommandWords(command)[1] = W_cd

\* C28: the command cd with no argument, run through run_safe_command from
\* any current directory, returns ok=true with exit code 0 and leaves
\* session.cwd at the sandbox root.
C28_BareCdToRoot ==
    [][(RunReturns /\ CommandWords(sess_call.arg) = <<W_cd>>)
       => (/\ run_res'[1] = TRUE
           /\ run_res'[2] = 0
           /\ cwd' = sandbox_root)]_vars

-----------------------------------------------------------------------------
(* Specification of the conversation store: any sequence of its four       *)
(* mutators                                                                *)

ConvUserText == <<"h", "e", "l", "l", "o">>
ConvAssistantText == <<"I", " ", "s", "e", "e", " ", "i", "t">>
ConvToolCalls ==
    {[tool |-> "shell_command", args |-> [command |-> <<"l", "s">>]]}

ConvSpecInit ==
    /\ ConvInit
    /\ SessionInit
    /\ home = <<"/", "o">>
    /\ CallInit
    /\ GateIdle
    /\ FilesInit
    /\ ProcInit
    /\ RunIdle
    /\ CleanIdle
    /\ ReplyIdle

\* What every add leaves behind: the store after the call, the clock advanced
\* and the entry that was just stamped recorded as appended
ConvStore(conv, entry) ==
    /\ history' = conv.history
    /\ token_estimate' = conv.token_estimate
    /\ clock' = clock + 1
    /\ appended' = Append(appended, entry)

ConvAddUser ==
    /\ clock < MaxAppends
    /\ ConvStore(add_user_message(Conv, ConvUserText, clock + 1),
                 UserEntry(ConvUserText, clock + 1))
    /\ UNCHANGED <<convBudget, sessVars, callVars, gateVars, files, procVars,
                   runVars, cleanVars, replyVars>>

ConvAddAssistant ==
    /\ clock < MaxAppends
    /\ special_used < MaxSpecial
    /\ ConvStore(add_assistant_message(Conv, ConvAssistantText, clock + 1),
                 AssistantEntry(ConvAssistantText, clock + 1))
    /\ special_used' = special_used + 1
    /\ UNCHANGED <<clears_used, sessVars, callVars, gateVars, files, procVars,
                   runVars, cleanVars, replyVars>>

ConvAddToolResult ==
    /\ clock < MaxAppends
    /\ special_used < MaxSpecial
    /\ \E tc \in ConvToolCalls, ok \in BOOLEAN, t \in {0, 1} :
          ConvStore(add_tool_result(Conv, tc, T_out, ok, t, clock + 1),
                    ToolResultEntry(tc, T_out, ok, t, clock + 1))
    /\ special_used' = special_used + 1
    /\ UNCHANGED <<clears_used, sessVars, callVars, gateVars, files, procVars,
                   runVars, cleanVars, replyVars>>

ConvClear ==
    /\ clears_used < MaxClears
    /\ history' = conv_clear.history
    /\ token_estimate' = conv_clear.token_estimate
    /\ appended' = <<>>
    /\ clears_used' = clears_used + 1
    /\ UNCHANGED <<clock, special_used, sessVars, callVars, gateVars, files, procVars,
                   runVars, cleanVars, replyVars>>

ConvNext == ConvAddUser \/ ConvAddAssistant \/ ConvAddToolResult \/ ConvClear

SpecConv == ConvSpecInit /\ [][ConvNext]_vars

(* Claims about the conversation store *)

\* C5: the history holds at most MAX_HISTORY_MESSAGES entries, and they are
\* the most recent entries appended since the last clear, in insertion order.
C5_HistoryIsRecentSuffix ==
    LET n == Len(appended)
        k == IF n <= MAX_HISTORY_MESSAGES THEN n ELSE MAX_HISTORY_MESSAGES
    IN  /\ Len(history) <= MAX_HISTORY_MESSAGES
        /\ history = SubSeq(appended, n - k + 1, n)

\* C5 witness: more than MAX_HISTORY_MESSAGES entries were appended since the
\* last clear, so the oldest have been evicted, twice.
C5_Witness ==
    /\ Len(appended) >= MAX_HISTORY_MESSAGES + 2
    /\ Len(history) = MAX_HISTORY_MESSAGES
    /\ clears_used > 0

-----------------------------------------------------------------------------
(* Specification of the command processor: top-level inputs handed to      *)
(* process_ai_query and process_direct_command one after the other, with   *)
(* a collaborator that fails, answers in plain text or proposes a tool     *)

Cmd_ls == <<"l", "s">>
Cmd_rm == <<"r", "m", " ", "-", "r", "f", " ", "/">>

QueryTexts == {<<"h", "i">>}
DirectCommands == {Cmd_ls, Cmd_rm}

\* The tool calls the collaborator proposes
ProcToolCalls ==
    {[tool |-> "shell_command", args |-> [command |-> Cmd_ls]],
     [tool |-> "shell_command", args |-> [command |-> Cmd_rm]],
     [tool |-> "read_file", args |-> [path |-> <<"f">>]],
     [tool |-> "read_file", args |-> [path |-> <<"n">>]]}

\* What ResponseParser.parse makes of a reply that holds a tool call
ToolSuggestion(tc) ==
    AISuggestion(<<"Let me check.">>,
                 IF tc.tool = "shell_command" THEN tc.args.command
                 ELSE tc.args.path,
                 tc)

\* What it makes of a reply in plain text
PlainSuggestion == AISuggestion(<<"All done.">>, None, None)

\* The work of a run: a proposed tool call counts for one, and a top-level
\* input for one more than the tool calls it may execute
QueryCost == MAX_TOOL_CALLS_PER_QUERY + 1
WorkDone == QueryCost * queries + proposed

\* What backend.suggest can return; the collaborator stops proposing tools
\* when the run has done MaxWork
Suggestions ==
    {PlainSuggestion}
    \cup IF WorkDone < MaxWork
         THEN {ToolSuggestion(tc) : tc \in ProcToolCalls}
         ELSE {}

\* time.time() - start_time, in whole seconds
ExecutionTimes == {1}

\* The pieces of a reply that holds a read_file tool call, in order
ReplyPieces ==
    <<<<"o", "k", "\n">>, FenceJson, <<"\n">>, <<"{">>,
      <<"\"", "t", "o", "o", "l", "\"">>, <<":">>,
      <<"\"", "r", "e", "a", "d", "_", "f", "i", "l", "e", "\"">>,
      <<",">>, <<"\"", "a", "r", "g", "s", "\"">>, <<":", " ">>, <<"{">>,
      <<"\"", "p", "a", "t", "h", "\"">>, <<":">>,
      <<"\"", "f", "\"">>, <<"}">>, <<"\n", "}">>, <<"\n">>,
      Fence>>

\* That reply without its i-th piece, and with its i-th piece twice
WithoutPiece(i) ==
    Flatten(SubSeq(ReplyPieces, 1, i - 1)
            \o SubSeq(ReplyPieces, i + 1, Len(ReplyPieces)))
WithPieceTwice(i) ==
    Flatten(SubSeq(ReplyPieces, 1, i)
            \o SubSeq(ReplyPieces, i, Len(ReplyPieces)))

\* A reply with the given text in its fence and the given text after it
FencedReply(json, trailing) ==
    <<"o", "k", "\n">> \o FenceJson \o json \o Fence \o trailing

\* The replies of the collaborator: a well-formed tool call, every damage of
\* one piece to it, other tool calls, JSON objects that are no tool call, and
\* plain text
Replies ==
    {Flatten(ReplyPieces)}
    \cup {WithoutPiece(i) : i \in 1..Len(ReplyPieces)}
    \cup {WithPieceTwice(i) : i \in 1..Len(ReplyPieces)}
    \cup {FencedReply(json, trailing) :
            json \in {<<"{", "\"", "t", "o", "o", "l", "\"", ":",
                        "\"", "s", "h", "e", "l", "l", "_", "c", "o", "m", "m", "a", "n", "d", "\"", ",",
                        "\"", "a", "r", "g", "s", "\"", ":", "{",
                        "\"", "c", "o", "m", "m", "a", "n", "d", "\"", ":",
                        "\"", "$", " ", "l", "s", "\"", "}", "}">>,
                      <<"{", "\"", "t", "o", "o", "l", "\"", ":",
                        "\"", "s", "h", "e", "l", "l", "_", "c", "o", "m", "m", "a", "n", "d", "\"",
                        "}">>,
                      <<"{", "\"", "t", "o", "o", "l", "\"", ":",
                        "\"", "r", "e", "a", "d", "_", "f", "i", "l", "e", "\"", ",",
                        "\"", "a", "r", "g", "s", "\"", ":", "\"", "f", "\"",
                        "}">>,
                      <<"{", "\"", "t", "o", "o", "l", "\"", ":", "\"", "x", "\"", "}">>,
                      <<"{", "\"", "a", "\n", "\"", ":", "\"", "x", "\"", "}">>,
                      <<"{", "}">>},
            trailing \in {<<>>, <<"\n", "g", "o">>}}
    \cup {<<"A", "l", "l", " ", "d", "o", "n", "e", ".">>,
          FenceJson \o <<"[", "]">> \o Fence}

ProcSpecInit ==
    /\ SessionInit
    /\ home = <<"/", "o">>
    /\ CallInit
    /\ GateIdle
    /\ ConvInit
    /\ FilesInit
    /\ ProcInit
    /\ RunIdle
    /\ CleanIdle
    /\ ReplyIdle

\* The conversation after a call of one of its add methods
ConvUpdate(conv, entries) ==
    /\ history' = conv.history
    /\ token_estimate' = conv.token_estimate
    /\ clock' = clock + Len(entries)
    /\ appended' = appended \o entries

\* A start that leaves the counters where the previous input left them
KeepCounters ==
    /\ UNCHANGED <<tool_calls_remaining, error_recovery_depth>>
    /\ executed' = 0
    /\ requests' = <<>>

\* CommandProcessor._reset_counters(), and a fresh count of what the method
\* in progress does
ResetCounters ==
    /\ tool_calls_remaining' = MAX_TOOL_CALLS_PER_QUERY
    /\ error_recovery_depth' = 0
    /\ executed' = 0
    /\ requests' = <<>>

\* _execute_tool_with_timing(tc, ...): ToolExecutor.execute runs on the
\* session and the files, and its result is wrapped with its timing
ExecuteTool(tc, r, t) ==
    /\ cwd' = r.cwd
    /\ files' = r.files
    /\ spawned' = r.spawned
    /\ last_tool_call' = tc
    /\ exec_result' = ToolExecutionResult(r.result, t, tool_name_of(tc))
    /\ executed' = executed + 1
    /\ tools_run' = tools_run + 1

\* process_ai_query(query), up to the loop
StartAIQuery ==
    /\ pc = "idle"
    /\ WorkDone + QueryCost <= MaxWork
    /\ \E text \in QueryTexts :
          /\ query' = [kind |-> "ai", text |-> text]
          /\ ConvUpdate(add_user_message(Conv, text, clock + 1),
                        <<UserEntry(text, clock + 1)>>)
          /\ current_prompt' = QueryPrompt(text)
    /\ ResetCounters
    /\ state' = "processing"
    /\ final_explanation' = <<>>
    /\ queries' = queries + 1
    /\ pc' = "ai_loop"
    /\ UNCHANGED <<suggestion, last_tool_call, exec_result, tools_run, proposed,
                   settings_safety_profile, files, sessVars, callVars,
                   gateVars, convBudget,
                   runVars, cleanVars, replyVars>>

\* A loop that asks the collaborator again after a failed request
after_failed_request_retry == "ai_loop"

\* Where process_ai_query goes when _get_ai_suggestion returned None: break
after_failed_request == "ai_done"

\* One pass of the loop from its test to the decrement of the budget, for
\* what _get_ai_suggestion returned: it is recorded and examined
AIRequestGets(s) ==
    /\ pc = "ai_loop"
    /\ tool_calls_remaining > 0
    /\ requests' = Append(requests, current_prompt.kind)
    /\ suggestion' = s
    /\ IF s = NoSuggestion
       THEN /\ pc' = after_failed_request
            /\ UNCHANGED <<convVars, final_explanation, tool_calls_remaining,
                           proposed>>
       ELSE /\ ConvUpdate(add_assistant_message(Conv, s.explanation, clock + 1),
                          <<AssistantEntry(s.explanation, clock + 1)>>)
            /\ IF s.tool_call = None
               THEN /\ final_explanation' = s.explanation
                    /\ pc' = "ai_done"
                    /\ UNCHANGED <<tool_calls_remaining, proposed>>
               ELSE /\ proposed' = proposed + 1
                    /\ IF ~should_execute_tool(tool_calls_remaining)
                       THEN /\ final_explanation' =
                                  <<"Stopping: ", "Tool call limit reached (",
                                    ToString(MAX_TOOL_CALLS_PER_QUERY),
                                    " calls). This prevents infinite loops.">>
                            /\ pc' = "ai_done"
                            /\ UNCHANGED tool_calls_remaining
                       ELSE /\ tool_calls_remaining' =
                                  decrement_tool_calls(tool_calls_remaining)
                            /\ pc' = "ai_exec"
                            /\ UNCHANGED final_explanation
    /\ UNCHANGED <<state, error_recovery_depth, query, current_prompt,
                   last_tool_call, exec_result, executed, tools_run, queries,
                   settings_safety_profile, files, sessVars, callVars,
                   gateVars, convBudget,
                   runVars, cleanVars>>

\* The pass with a collaborator known by the suggestions it returns:
\* _get_ai_suggestion returns None or one of them
AIRequest ==
    /\ \E s \in {NoSuggestion} \cup Suggestions : AIRequestGets(s)
    /\ UNCHANGED replyVars

\* The pass with a collaborator known by the text of its replies: the request
\* fails, or the reply goes through MistralBackend.suggest.  After MaxReplies
\* replies the collaborator repeats its last one, of which suggest makes the
\* suggestion it made before.
AIReply ==
    \/ /\ AIRequestGets(NoSuggestion)
       /\ UNCHANGED replyVars
    \/ /\ Len(requests) < MaxReplies
       /\ \E text \in Replies :
             /\ reply' = text
             /\ AIRequestGets(suggest(text))
    \/ /\ Len(requests) >= MaxReplies
       /\ suggestion # NoSuggestion
       /\ AIRequestGets(suggestion)
       /\ UNCHANGED replyVars

\* The rest of the pass: the tool is executed, its result recorded, and the
\* next prompt chosen
AIExecTool ==
    /\ pc = "ai_exec"
    /\ \E r \in execute(sandbox_root, cwd, home, files, suggestion.tool_call,
                        settings_safety_profile),
          t \in ExecutionTimes :
          LET shown == IF r.result.success THEN r.result.output
                       ELSE r.result.error
          IN
          /\ ExecuteTool(suggestion.tool_call, r, t)
          /\ ConvUpdate(add_tool_result(Conv, suggestion.tool_call, shown,
                                        r.result.success, t, clock + 1),
                        <<ToolResultEntry(suggestion.tool_call, shown,
                                          r.result.success, t, clock + 1)>>)
          /\ IF r.result.success
             THEN /\ current_prompt' = SuccessPrompt
                  /\ pc' = "ai_loop"
                  /\ UNCHANGED <<error_recovery_depth, final_explanation>>
             ELSE /\ current_prompt' =
                        build_error_context(suggestion.tool_call, r.result.error)
                  /\ error_recovery_depth' = error_recovery_depth + 1
                  /\ IF recovery_cap_reached(error_recovery_depth + 1)
                     THEN /\ final_explanation' =
                                <<"Max error recovery depth reached. Aborting.">>
                          /\ pc' = "ai_done"
                     ELSE /\ pc' = "ai_loop"
                          /\ UNCHANGED final_explanation
    /\ UNCHANGED <<state, tool_calls_remaining, query, suggestion, requests,
                   queries, proposed, settings_safety_profile,
                   sandbox_root, home, sess_call, run_res, gateVars,
                   convBudget,
                   runVars, cleanVars, replyVars>>

\* The loop ends because its test fails
AILoopExit ==
    /\ pc = "ai_loop"
    /\ ~(tool_calls_remaining > 0)
    /\ pc' = "ai_done"
    /\ UNCHANGED <<settings_safety_profile, state, tool_calls_remaining,
                   error_recovery_depth, query, current_prompt, suggestion,
                   last_tool_call, exec_result, final_explanation, executed,
                   requests, tools_run, queries, proposed, files, sessVars,
                   callVars, gateVars, convVars, convBudget,
                   runVars, cleanVars, replyVars>>

\* A test that takes any use of the budget for its exhaustion
tool_limit_reached_once_used(remaining) == remaining < MAX_TOOL_CALLS_PER_QUERY

\* The test after the loop: self._tool_calls_remaining <= 0
tool_limit_reached(remaining) == remaining <= 0

\* process_ai_query after the loop
AIFinish ==
    /\ pc = "ai_done"
    /\ final_explanation' =
          IF tool_limit_reached(tool_calls_remaining)
          THEN <<"Tool call limit reached. Aborting.">>
          ELSE final_explanation
    /\ state' = "idle"
    /\ pc' = "idle"
    /\ UNCHANGED <<settings_safety_profile, tool_calls_remaining,
                   error_recovery_depth, query, current_prompt, suggestion,
                   last_tool_call, exec_result, executed, requests, tools_run,
                   queries, proposed, files, sessVars, callVars, gateVars,
                   convVars, convBudget,
                   runVars, cleanVars, replyVars>>

\* process_direct_command(command), up to the try block
StartDirect ==
    /\ pc = "idle"
    /\ WorkDone + QueryCost <= MaxWork
    /\ \E command \in DirectCommands :
          query' = [kind |-> "direct", text |-> command]
    /\ ResetCounters
    /\ state' = "executing_tool"
    /\ queries' = queries + 1
    /\ pc' = "direct_exec"
    /\ UNCHANGED <<current_prompt, suggestion, last_tool_call, exec_result,
                   final_explanation, tools_run, proposed,
                   settings_safety_profile, files, sessVars, callVars,
                   gateVars, convVars, convBudget,
                   runVars, cleanVars, replyVars>>

\* A direct command that asks the collaborator whatever its outcome
needs_recovery_always(result) == TRUE

\* The test of process_direct_command before error recovery:
\* not exec_result.success
needs_recovery(result) == ~result.success

\* The try block up to the call of _handle_error_with_ai: the command is
\* executed and recorded, and a failure builds the error context
DirectExec ==
    /\ pc = "direct_exec"
    /\ \E r \in execute(sandbox_root, cwd, home, files,
                        DirectToolCall(query.text), settings_safety_profile),
          t \in ExecutionTimes :
          LET tc == DirectToolCall(query.text)
              said == <<"!">> \o query.text
              c1 == add_user_message(Conv, said, clock + 1)
              c2 == add_tool_result(c1, tc, r.result.output, r.result.success,
                                    t, clock + 2)
          IN
          /\ ExecuteTool(tc, r, t)
          /\ ConvUpdate(c2, <<UserEntry(said, clock + 1),
                              ToolResultEntry(tc, r.result.output,
                                              r.result.success, t, clock + 2)>>)
          /\ IF needs_recovery(r.result)
             THEN /\ current_prompt' = build_error_context(tc, r.result.error)
                  /\ pc' = "recover"
             ELSE /\ pc' = "direct_finally"
                  /\ UNCHANGED current_prompt
    /\ UNCHANGED <<state, tool_calls_remaining, error_recovery_depth, query,
                   suggestion, final_explanation, requests, queries,
                   proposed, settings_safety_profile, sandbox_root, home,
                   sess_call, run_res, gateVars, convBudget,
                   runVars, cleanVars, replyVars>>

\* _handle_error_with_ai(context, original_query) up to the decrement of the
\* budget
Recover ==
    /\ pc = "recover"
    /\ IF recovery_cap_reached(error_recovery_depth)
       THEN /\ pc' = "direct_finally"
            /\ UNCHANGED <<error_recovery_depth, requests, suggestion, convVars,
                           tool_calls_remaining, proposed>>
       ELSE /\ error_recovery_depth' = error_recovery_depth + 1
            /\ requests' = Append(requests, current_prompt.kind)
            /\ \/ \* _get_ai_suggestion returns None
                  /\ suggestion' = NoSuggestion
                  /\ pc' = "direct_finally"
                  /\ UNCHANGED <<convVars, tool_calls_remaining, proposed>>
               \/ \E s \in Suggestions :
                  /\ suggestion' = s
                  /\ ConvUpdate(add_assistant_message(Conv, s.explanation,
                                                      clock + 1),
                                <<AssistantEntry(s.explanation, clock + 1)>>)
                  /\ IF s.tool_call = None
                     THEN /\ pc' = "direct_finally"
                          /\ UNCHANGED <<tool_calls_remaining, proposed>>
                     ELSE /\ proposed' = proposed + 1
                          /\ IF ~should_execute_tool(tool_calls_remaining)
                             THEN /\ pc' = "direct_finally"
                                  /\ UNCHANGED tool_calls_remaining
                             ELSE /\ tool_calls_remaining' =
                                        decrement_tool_calls(tool_calls_remaining)
                                  /\ pc' = "recover_exec"
    /\ UNCHANGED <<state, query, current_prompt, last_tool_call, exec_result,
                   final_explanation, executed, tools_run, queries,
                   settings_safety_profile, files, sessVars, callVars,
                   gateVars, convBudget,
                   runVars, cleanVars, replyVars>>

\* An error handler that handles the failure of its own tool as well
after_recovery_tool_retry(result) ==
    IF result.success THEN "direct_finally" ELSE "recover"

\* Where _handle_error_with_ai goes once its tool has run: it returns,
\* whatever the tool returned
after_recovery_tool(result) == "direct_finally"

\* The last line of _handle_error_with_ai: the proposed tool is executed and
\* what it returns is dropped
RecoverExec ==
    /\ pc = "recover_exec"
    /\ \E r \in execute(sandbox_root, cwd, home, files, suggestion.tool_call,
                        settings_safety_profile),
          t \in ExecutionTimes :
          /\ ExecuteTool(suggestion.tool_call, r, t)
          /\ pc' = after_recovery_tool(r.result)
    /\ UNCHANGED <<state, tool_calls_remaining, error_recovery_depth, query,
                   current_prompt, suggestion, final_explanation, requests,
                   queries, proposed, settings_safety_profile, sandbox_root,
                   home, sess_call, run_res, gateVars, convVars, convBudget,
                   runVars, cleanVars, replyVars>>

\* The finally clause of process_direct_command
DirectFinally ==
    /\ pc = "direct_finally"
    /\ state' = "idle"
    /\ pc' = "idle"
    /\ UNCHANGED <<settings_safety_profile, tool_calls_remaining,
                   error_recovery_depth, query, current_prompt, suggestion,
                   last_tool_call, exec_result, final_explanation, executed,
                   requests, tools_run, queries, proposed, files, sessVars,
                   callVars, gateVars, convVars, convBudget,
                   runVars, cleanVars, replyVars>>

Next ==
    \/ StartAIQuery \/ AIRequest \/ AIExecTool \/ AILoopExit \/ AIFinish
    \/ StartDirect \/ DirectExec \/ Recover \/ RecoverExec \/ DirectFinally

Spec == ProcSpecInit /\ [][Next]_vars

\* A process that is handed one AI query
StartOneAIQuery == queries = 0 /\ StartAIQuery

QueryNext ==
    StartOneAIQuery \/ AIRequest \/ AIExecTool \/ AILoopExit \/ AIFinish

SpecQuery == ProcSpecInit /\ [][QueryNext]_vars

\* A process that is handed one AI query and whose collaborator replies in text
ReplyNext ==
    StartOneAIQuery \/ AIReply \/ AIExecTool \/ AILoopExit \/ AIFinish

SpecReply == ProcSpecInit /\ [][ReplyNext]_vars

\* KeyboardInterrupt raised while backend.suggest waits for the collaborator
\* in process_ai_query: `except Exception` does not catch it, the method has
\* no finally clause, and the exception leaves it past l.286-295
AIInterrupt ==
    /\ pc = "ai_loop"
    /\ tool_calls_remaining > 0
    /\ requests' = Append(requests, current_prompt.kind)
    /\ pc' = "left"
    /\ UNCHANGED <<settings_safety_profile, state, tool_calls_remaining,
                   error_recovery_depth, query, current_prompt, suggestion,
                   last_tool_call, exec_result, final_explanation, executed,
                   tools_run, queries, proposed, files, sessVars,
                   callVars, gateVars, convVars, convBudget,
                   runVars, cleanVars, replyVars>>

\* KeyboardInterrupt raised while backend.suggest waits for the collaborator
\* in _handle_error_with_ai: the exception leaves process_direct_command
\* through its finally clause
DirectInterrupt ==
    /\ pc = "recover"
    /\ ~recovery_cap_reached(error_recovery_depth)
    /\ error_recovery_depth' = error_recovery_depth + 1
    /\ requests' = Append(requests, current_prompt.kind)
    /\ state' = "idle"
    /\ pc' = "left"
    /\ UNCHANGED <<settings_safety_profile, tool_calls_remaining,
                   query, current_prompt, suggestion,
                   last_tool_call, exec_result, final_explanation, executed,
                   tools_run, queries, proposed, files, sessVars,
                   callVars, gateVars, convVars, convBudget,
                   runVars, cleanVars, replyVars>>

\* A process that is handed one direct command
StartOneDirect == queries = 0 /\ StartDirect

\* A process that is handed one input and whose user may interrupt it while
\* it waits for the collaborator
InterruptNext ==
    \/ StartOneAIQuery \/ AIRequest \/ AIExecTool \/ AILoopExit \/ AIFinish
    \/ StartOneDirect \/ DirectExec \/ Recover \/ RecoverExec \/ DirectFinally
    \/ AIInterrupt \/ DirectInterrupt

SpecInterrupt == ProcSpecInit /\ [][InterruptNext]_vars

(* Specification of the recording of tool results: tools that return       *)
(* outputs of every size, each recorded in the conversation the way        *)
(* process_ai_query records it                                             *)

RECURSIVE times(_, _)
\* s * n
times(s, n) ==
    IF n = 0 THEN ""
    ELSE IF n % 2 = 1 THEN s \o times(s, n - 1)
    ELSE LET half == times(s, n \div 2) IN half \o half

\* The outputs a tool returns with success: a short one, one of exactly
\* MAX_OUTPUT_CHARS characters, one word that is a character longer,
\* whitespace alone, words that do not fit, and words that fit once their
\* double spaces are collapsed
ToolOutputs ==
    {T_out,
     <<times("x", MAX_OUTPUT_CHARS)>>,
     <<times("x", MAX_OUTPUT_CHARS + 1)>>,
     <<times(" ", MAX_OUTPUT_CHARS + 1)>>,
     <<times(times("a", 99) \o " ", 21)>>,
     <<times(times("b", 99) \o "  ", 20)>>}

\* The errors a tool returns without success: a short one, a traceback whose
\* first three and last seven lines fit, one whose lines do not fit, and an
\* error on one line
ToolErrors ==
    {<<"n", "o">>,
     <<"Traceback", "\n", times(times("e", 199) \o "\n", 12)>>,
     <<"Error", "\n", times(times("e", 299) \o "\n", 12)>>,
     <<"Exception", " ", times("x", MAX_OUTPUT_CHARS)>>}

\* The results ToolExecutor.execute returns
RecordedResults ==
    {ToolResult(TRUE, out, <<>>) : out \in ToolOutputs}
    \cup {ToolResult(FALSE, <<>>, err) : err \in ToolErrors}

\* exec_result = self._execute_tool_with_timing(...) for a tool that returns
\* the result, then self.conversation.add_tool_result(...)
RecordToolResult ==
    /\ tools_run < MaxRecorded
    /\ \E tc \in ConvToolCalls, result \in RecordedResults,
          t \in ExecutionTimes :
          LET shown == IF result.success THEN result.output ELSE result.error
          IN  /\ last_tool_call' = tc
              /\ exec_result' = ToolExecutionResult(result, t, tool_name_of(tc))
              /\ tools_run' = tools_run + 1
              /\ ConvUpdate(add_tool_result(Conv, tc, shown, result.success, t,
                                            clock + 1),
                            <<ToolResultEntry(tc, shown, result.success, t,
                                              clock + 1)>>)
    /\ UNCHANGED <<settings_safety_profile, state, tool_calls_remaining,
                   error_recovery_depth, pc, query, current_prompt, suggestion,
                   final_explanation, executed, requests, queries, proposed,
                   files, sessVars, callVars, gateVars, convBudget,
                   runVars, cleanVars, replyVars>>

RecordNext == RecordToolResult

SpecRecord == ProcSpecInit /\ [][RecordNext]_vars

\* _execute_tool_with_timing returns: the step AIExecTool takes, seen on pc
ToolReturns == pc = "ai_exec" /\ pc' \in {"ai_loop", "ai_done"}

\* Every collaborator call and every tool execution returns, and the method
\* runs on: a step of the query that can be taken is taken
SpecQueryFair ==
    /\ SpecQuery
    /\ WF_vars(AIRequest)
    /\ WF_pc(ToolReturns)
    /\ WF_vars(AILoopExit)
    /\ WF_vars(AIFinish)

(* Claims about the command processor *)

\* A method of the command processor is in progress
InQuery == pc # "idle"

\* The collaborator requests of the method in progress that carried an error
\* context
ErrorRequests == {i \in 1..Len(requests) : requests[i] = "error_context"}

\* The tool results appended to the conversation since the process started
ToolResultsAppended ==
    {i \in 1..Len(appended) : appended[i].metadata # NoMetadata}

\* text holds part as a contiguous piece
Mentions(text, part) ==
    \E i \in 1..(Len(text) - Len(part) + 1) :
        SubSeq(text, i, i + Len(part) - 1) = part

\* The last tool executed was a shell_command that the safety gate rejects
ShellRejected ==
    /\ exec_result # NoResult
    /\ tool_name_of(last_tool_call) = "shell_command"
    /\ arg_get(tool_args_of(last_tool_call), "command", <<>>) # <<>>
    /\ ~is_safe_command(last_tool_call.args.command, settings_safety_profile)[1]

\* C1: in one process_ai_query, whatever the collaborator proposes and
\* however the tools end, at most MAX_TOOL_CALLS_PER_QUERY tool calls are
\* dispatched through ToolExecutor.execute.
C1_ToolCallsBounded ==
    (queries > 0 /\ query.kind = "ai") => executed <= MAX_TOOL_CALLS_PER_QUERY

\* C1 witness: a query whose every suggestion proposed a tool has executed
\* MAX_TOOL_CALLS_PER_QUERY of them and stopped on the limit.
C1_Witness ==
    /\ queries > 0
    /\ query.kind = "ai"
    /\ executed = MAX_TOOL_CALLS_PER_QUERY
    /\ Len(requests) = MAX_TOOL_CALLS_PER_QUERY
    /\ pc = "idle"
    /\ final_explanation = <<"Tool call limit reached. Aborting.">>

\* C2: within one process_ai_query or process_direct_command, at most
\* MAX_ERROR_RECOVERY_DEPTH collaborator requests carry an error context, and
\* the error-recovery depth stays in 0..MAX_ERROR_RECOVERY_DEPTH.
C2_RecoveryBounded ==
    /\ Cardinality(ErrorRequests) <= MAX_ERROR_RECOVERY_DEPTH
    /\ error_recovery_depth \in 0..MAX_ERROR_RECOVERY_DEPTH

\* C2 witness: a query asked the collaborator about a failed tool, the tool
\* it proposed failed too, and the query stopped on the recovery cap.
C2_Witness ==
    /\ ErrorRequests # {}
    /\ error_recovery_depth = MAX_ERROR_RECOVERY_DEPTH
    /\ final_explanation = <<"Max error recovery depth reached. Aborting.">>
    /\ pc = "idle"

\* C3: every process_ai_query and process_direct_command starts with the
\* tool-call budget at MAX_TOOL_CALLS_PER_QUERY and the error-recovery depth
\* at 0, whatever came before; from there to its end the budget never
\* increases and the depth never decreases.
C3_CountersResetAndMonotonic ==
    [][/\ (~InQuery /\ InQuery') =>
              (/\ tool_calls_remaining' = MAX_TOOL_CALLS_PER_QUERY
               /\ error_recovery_depth' = 0)
       /\ InQuery =>
              (/\ tool_calls_remaining' <= tool_calls_remaining
               /\ error_recovery_depth' >= error_recovery_depth)]_vars

\* C3 witness: a second input has just started, after a query that used up
\* its whole budget and failed once on the way, and the counters are fresh.
C3_Witness ==
    /\ queries = 2
    /\ proposed = MAX_TOOL_CALLS_PER_QUERY
    /\ pc \in {"ai_loop", "direct_exec"}
    /\ executed = 0
    /\ tools_run = MAX_TOOL_CALLS_PER_QUERY
    /\ \E i \in ToolResultsAppended : ~appended[i].metadata[1].success
    /\ tool_calls_remaining = MAX_TOOL_CALLS_PER_QUERY
    /\ error_recovery_depth = 0

\* C4: when a collaborator request is issued, the result of every tool the
\* command processor has executed so far is in the conversation.
C4_ExecutionsMirrored ==
    [][Len(requests') > Len(requests) =>
          Cardinality(ToolResultsAppended) = tools_run]_vars

\* process_ai_query is in progress
InAIQuery == InQuery /\ query.kind = "ai"

\* C21: process_ai_query issues at most MAX_TOOL_CALLS_PER_QUERY collaborator
\* requests, every pass of its loop either leaves the loop or takes exactly
\* one from the tool-call budget, and, every call returning, it ends.
C21_QueryTerminates ==
    /\ [](InAIQuery => Len(requests) <= MAX_TOOL_CALLS_PER_QUERY)
    /\ [][(InAIQuery /\ Len(requests') > Len(requests)) =>
              \/ pc' = "ai_done"
              \/ tool_calls_remaining' = tool_calls_remaining - 1]_vars
    /\ (InAIQuery ~> pc = "idle")

\* C21 witness: a query that has issued MAX_TOOL_CALLS_PER_QUERY requests,
\* each answered with a tool call, has left its loop.
C21_Witness ==
    /\ InAIQuery
    /\ pc = "ai_done"
    /\ Len(requests) = MAX_TOOL_CALLS_PER_QUERY
    /\ executed = MAX_TOOL_CALLS_PER_QUERY
    /\ tool_calls_remaining = 0

\* The collaborator request of the pass in progress has failed
RequestFailed == InAIQuery /\ pc = "ai_done" /\ suggestion = NoSuggestion

\* C22: when a collaborator request of process_ai_query fails, the pass
\* executes no tool and appends nothing to the history, and the query then
\* ends with the state IDLE, with no further request, tool execution or
\* history entry.
C22_FailedRequestEndsQuery ==
    [][/\ (InAIQuery /\ Len(requests') > Len(requests)
                      /\ suggestion' = NoSuggestion)
          => (/\ pc' = "ai_done"
              /\ executed' = executed
              /\ tools_run' = tools_run
              /\ appended' = appended
              /\ history' = history)
       /\ RequestFailed
          => (/\ pc' = "idle"
              /\ state' = "idle"
              /\ requests' = requests
              /\ executed' = executed
              /\ tools_run' = tools_run
              /\ appended' = appended
              /\ history' = history)]_vars

\* C22 witness: a query whose first request proposed a tool, which was
\* executed, and whose second request failed has ended in the state IDLE.
C22_Witness ==
    /\ queries > 0
    /\ query.kind = "ai"
    /\ pc = "idle"
    /\ state = "idle"
    /\ suggestion = NoSuggestion
    /\ Len(requests) = 2
    /\ executed = 1
    /\ Cardinality(ToolResultsAppended) = 1

\* The last request of the AI query was answered without a tool call
PlainAnswer ==
    /\ queries > 0
    /\ query.kind = "ai"
    /\ pc \in {"ai_done", "idle"}
    /\ suggestion # NoSuggestion
    /\ suggestion.tool_call = None

\* C23: when the collaborator answers without a tool call, process_ai_query
\* ends at that pass, with no tool executed and no request issued after it,
\* and the final explanation is that suggestion's explanation.
C23_PlainAnswerEndsQuery ==
    [][/\ (InAIQuery /\ Len(requests') > Len(requests)
                      /\ suggestion' # NoSuggestion
                      /\ suggestion'.tool_call = None)
          => (/\ pc' = "ai_done"
              /\ executed' = executed
              /\ final_explanation' = suggestion'.explanation)
       /\ (PlainAnswer /\ pc = "ai_done")
          => (/\ pc' = "idle"
              /\ requests' = requests
              /\ executed' = executed
              /\ tools_run' = tools_run
              /\ final_explanation' = suggestion.explanation)]_vars

\* C23 witness: a query that executed two tools and was then answered in
\* plain text has ended with that text as its final explanation.
C23_Witness ==
    /\ PlainAnswer
    /\ pc = "idle"
    /\ executed = 2
    /\ Len(requests) = 3
    /\ final_explanation = PlainSuggestion.explanation

\* The AI query has ended, and its loop was left by the break that follows a
\* failed tool once the error-recovery depth is at its cap
StoppedOnRecoveryCap ==
    /\ queries > 0
    /\ query.kind = "ai"
    /\ pc = "idle"
    /\ executed > 0
    /\ suggestion # NoSuggestion
    /\ suggestion.tool_call # None
    /\ last_tool_call = suggestion.tool_call
    /\ ~exec_result.success
    /\ error_recovery_depth >= MAX_ERROR_RECOVERY_DEPTH

\* The AI query has ended, and its loop was left because the tool-call
\* budget was used up
StoppedOnBudget ==
    /\ queries > 0
    /\ query.kind = "ai"
    /\ pc = "idle"
    /\ tool_calls_remaining <= 0
    /\ ~StoppedOnRecoveryCap

\* C24: a query stopped by the error-recovery cap ends with the
\* max-error-recovery message, also when the failing call was the last the
\* budget allowed; the tool-call-limit message is the final explanation only
\* of a query stopped by the exhausted budget.
C24_DistinctStopMessages ==
    /\ StoppedOnRecoveryCap =>
          final_explanation = <<"Max error recovery depth reached. Aborting.">>
    /\ (/\ queries > 0
        /\ query.kind = "ai"
        /\ pc = "idle"
        /\ final_explanation = <<"Tool call limit reached. Aborting.">>)
       => StoppedOnBudget

\* C25: a tool failure in process_ai_query increments the error-recovery
\* depth; the loop stops with the max-error-recovery message only if the
\* incremented depth exceeds MAX_ERROR_RECOVERY_DEPTH, and when it is at most
\* the cap and budget remains, the loop goes on to a collaborator request
\* with the error-context prompt.
C25_StopsOnlyBeyondCap ==
    [][(InAIQuery /\ executed' = executed + 1 /\ ~exec_result'.success)
       => (/\ error_recovery_depth' = error_recovery_depth + 1
           /\ (/\ pc' = "ai_done"
               /\ final_explanation'
                     = <<"Max error recovery depth reached. Aborting.">>)
              => error_recovery_depth' > MAX_ERROR_RECOVERY_DEPTH
           /\ (/\ error_recovery_depth' <= MAX_ERROR_RECOVERY_DEPTH
               /\ tool_calls_remaining' > 0)
              => (/\ pc' = "ai_loop"
                  /\ current_prompt'.kind = "error_context"))]_vars

\* The text a failed execution produced: the error of its ToolResult, or,
\* for a shell_command, the safety-gate reason or the stderr that
\* ToolExecutor.execute hands back as the output
FailureText(result) ==
    IF result.error # <<>> THEN result.error ELSE result.output

\* C26: the error-context prompt built after a failed tool call, in the AI
\* loop and for a direct command, embeds the failed tool call and the error
\* text the failure produced; its error text is not empty when the failure
\* produced one.
C26_ErrorContextHasError ==
    [][(/\ pc \in {"ai_exec", "direct_exec"}
        /\ executed' = executed + 1
        /\ ~exec_result'.success)
       => (/\ current_prompt'.kind = "error_context"
           /\ current_prompt'.tool_call = last_tool_call'
           /\ current_prompt'.error_output = FailureText(exec_result'))]_vars

\* In the AI query, a tool execution that succeeded lies between two that
\* failed, the later of them the last one: the prompt of each request tells
\* how the execution before it ended
SuccessBetweenFailures ==
    /\ ~exec_result.success
    /\ \E a, b \in 1..Len(requests) :
          /\ a < b
          /\ requests[a] = "error_context"
          /\ requests[b] = "success"

\* C27: the error-recovery depth counts consecutive failures: a query is not
\* stopped by the error-recovery cap at a failure that has a successful
\* execution between it and an earlier failure.
C27_DepthCountsConsecutive ==
    StoppedOnRecoveryCap => ~SuccessBetweenFailures

\* The reply holds a fenced JSON object that json.loads refuses
ParseFails(response) ==
    LET text == strip(response)
        found == json_search(text)
    IN  /\ found # None
        /\ ~json_loads(strip(SubSeq(text, found[1].group_start,
                                    found[1].group_end))).ok

\* The text json.loads refuses the fenced JSON object of the reply with
ParseErrorOf(response) ==
    LET text == strip(response)
        found == json_search(text)
    IN  json_loads(strip(SubSeq(text, found[1].group_start,
                                found[1].group_end))).msg

\* The last request of the AI query was answered by a reply whose JSON does
\* not parse
UnparsedReply ==
    /\ InAIQuery
    /\ suggestion # NoSuggestion
    /\ reply # None
    /\ ParseFails(reply)

\* C31: a reply whose fenced JSON object fails to parse gives a suggestion
\* without a tool call whose explanation carries the parse error; the pass
\* executes no tool and leaves the loop, and the query ends in the state IDLE
\* with that explanation as its final explanation and no further tool run.
C31_ParseFailureIsExplanation ==
    [][/\ (InAIQuery /\ Len(requests') > Len(requests)
                      /\ suggestion' # NoSuggestion
                      /\ reply' # None /\ ParseFails(reply'))
          => (/\ suggestion'.tool_call = None
              /\ Mentions(suggestion'.explanation,
                          <<"[Error parsing tool JSON: ">>
                          \o ParseErrorOf(reply') \o <<"]">>)
              /\ pc' = "ai_done"
              /\ final_explanation' = suggestion'.explanation
              /\ executed' = executed
              /\ tools_run' = tools_run)
       /\ (pc = "ai_done" /\ UnparsedReply)
          => (/\ pc' = "idle"
              /\ state' = "idle"
              /\ final_explanation' = suggestion.explanation
              /\ requests' = requests
              /\ executed' = executed
              /\ tools_run' = tools_run)]_vars

\* C31 witness: a query whose first reply held a tool call, which was
\* executed, and whose second reply held JSON that does not parse has ended
\* in the state IDLE with the annotated explanation.
C31_Witness ==
    /\ queries > 0
    /\ query.kind = "ai"
    /\ pc = "idle"
    /\ state = "idle"
    /\ Len(requests) = 2
    /\ executed = 1
    /\ reply # None
    /\ ParseFails(reply)
    /\ suggestion # NoSuggestion
    /\ suggestion.tool_call = None
    /\ final_explanation = suggestion.explanation
    /\ Mentions(final_explanation, <<"[Error parsing tool JSON: ">>)

\* No method of the command processor is in progress: the last one returned
\* or was left by an exception
OutsideMethods == pc \in {"idle", "left"}

\* C32: whenever the command processor is inside neither process_ai_query nor
\* process_direct_command, whether the last one returned or was left by an
\* exception or a user interrupt, its state is IDLE.
C32_IdleOutsideMethods == OutsideMethods => state = "idle"

\* The changes of state the chain Idle -> Processing -> {ExecutingTool,
\* Analyzing} -> Idle is made of, with the way back to Idle of an input that
\* needed neither a tool nor an analysis
StateChain ==
    {<<"idle", "processing">>,
     <<"processing", "executing_tool">>, <<"processing", "analyzing">>,
     <<"executing_tool", "idle">>, <<"analyzing", "idle">>,
     <<"executing_tool", "analyzing">>, <<"analyzing", "executing_tool">>,
     <<"processing", "idle">>}

\* C33: the state of the processor changes along Idle -> Processing ->
\* {ExecutingTool, Analyzing} -> Idle only, so that every input leaves Idle
\* through Processing, and the state is ExecutingTool in every step that
\* dispatches a tool call to ToolExecutor.execute.
C33_StateChain ==
    [][/\ state' # state => <<state, state'>> \in StateChain
       /\ tools_run' > tools_run => state = "executing_tool"]_vars

\* process_direct_command is in progress
InDirect == InQuery /\ query.kind = "direct"

\* The entries a step appends to the conversation
NewEntries == SubSeq(appended', Len(appended) + 1, Len(appended'))

\* C34: a direct command appends one user entry that holds the invocation
\* and, right after it, one tool-result entry for the shell_command, whether
\* the command succeeded or failed; whatever else the command appends is
\* neither a user entry nor a tool result; and the collaborator is asked only
\* after the command has failed.
C34_DirectCommandEntries ==
    [][/\ (pc = "idle" /\ pc' = "direct_exec") => NewEntries = <<>>
       /\ (pc = "direct_exec" /\ pc' # pc)
          => (/\ Len(NewEntries) = 2
              /\ NewEntries[1].role = "user"
              /\ NewEntries[1].metadata = NoMetadata
              /\ NewEntries[1].content = <<"!">> \o query.text
              /\ Mentions(NewEntries[1].content, query.text)
              /\ NewEntries[2].metadata # NoMetadata
              /\ NewEntries[2].metadata[1].tool = "shell_command"
              /\ NewEntries[2].metadata[1].success = exec_result'.success)
       /\ (InDirect /\ pc # "direct_exec")
          => \A i \in 1..Len(NewEntries) :
                /\ NewEntries[i].role = "assistant"
                /\ NewEntries[i].metadata = NoMetadata
       /\ (InDirect /\ Len(requests') > Len(requests))
          => (exec_result # NoResult /\ ~exec_result.success
              /\ last_tool_call = DirectToolCall(query.text))]_vars

\* C34 witness: a direct command has failed, the collaborator has proposed a
\* tool for it, which was executed, and the command has returned: since the
\* command started the conversation has gained the user entry, the tool
\* result and the collaborator's explanation, in that order.
C34_Witness ==
    /\ queries = 1
    /\ query.kind = "direct"
    /\ pc = "idle"
    /\ executed = 2
    /\ Len(requests) = 1
    /\ Len(appended) = 3
    /\ appended[1].role = "user"
    /\ appended[1].content = <<"!">> \o query.text
    /\ appended[2].metadata # NoMetadata
    /\ ~appended[2].metadata[1].success
    /\ appended[3].role = "assistant"
    /\ appended[3].metadata = NoMetadata

\* The last input was a direct command, in progress or returned
DirectCommand == queries > 0 /\ query.kind = "direct"

\* C35: one process_direct_command issues at most one collaborator request
\* and executes at most two tools, the command and one recovery tool, and
\* the step that runs the recovery tool ends the recovery whatever the tool
\* returned: no request follows it.
C35_RecoveryNotNested ==
    /\ [](DirectCommand => (Len(requests) <= 1 /\ executed <= 2))
    /\ [][pc = "recover_exec"
            => (/\ pc' = "direct_finally"
                /\ requests' = requests)]_vars
    /\ [][(InDirect /\ executed = 2) => requests' = requests]_vars

\* C35 witness: a direct command has failed, the recovery tool the
\* collaborator proposed has failed too, and the command has returned after
\* its one request.
C35_Witness ==
    /\ DirectCommand
    /\ pc = "idle"
    /\ state = "idle"
    /\ executed = 2
    /\ Len(requests) = 1
    /\ exec_result # NoResult
    /\ ~exec_result.success
    /\ last_tool_call = suggestion.tool_call

\* The checked command holds a token that is chgrp or dd in any letter case,
\* or starts with one of them followed by "-"
HasStrictWord ==
    /\ GateParsed.ok
    /\ \E i \in 1..Len(GateTokens) : \E w \in {W_chgrp, W_dd} :
          token_matches(GateTokens[i], w)

\* The name is one of the three profiles in some letter case
KnownProfile(name) == name # "" /\ profile_lower(name) \in Profiles

\* C36: the profiles are ordered by strictness.  For the command that was
\* checked: under strict it is rejected whenever standard rejects it, and a
\* token chgrp or dd is rejected; under lenient, under the empty name and
\* under a name that is no profile the answer is the answer of standard.
C36_ProfilesOrdered ==
    GateChecked =>
        LET standard == is_safe_command(gate_cmd, "standard") IN
        /\ (gate_profile = "strict" /\ ~standard[1]) => ~gate_res[1]
        /\ (gate_profile = "strict" /\ HasStrictWord) => ~gate_res[1]
        /\ gate_profile = "lenient" => gate_res = standard
        /\ ~KnownProfile(gate_profile) => gate_res = standard
        /\ gate_profile = "standard" => gate_res = standard

\* C36 witness: a command with a token dd, which standard accepts, has been
\* rejected under strict.
C36_Witness ==
    /\ GateChecked
    /\ gate_profile = "strict"
    /\ HasStrictWord
    /\ is_safe_command(gate_cmd, "standard")[1]
    /\ ~gate_res[1]

\* A command standard rejects has been checked under strict
C36_WitnessRejected ==
    /\ GateChecked
    /\ gate_profile = "strict"
    /\ ~HasStrictWord
    /\ ~is_safe_command(gate_cmd, "standard")[1]
    /\ ~gate_res[1]

\* The output a tool-result content embeds: what stands between the opening
\* fence after "Output:" and the closing fence
EmbeddedOutput(content) ==
    LET k == CHOOSE i \in 1..Len(content) : content[i] = "\n\nOutput:\n^^^\n"
    IN  SubSeq(content, k + 1, Len(content) - 1)

\* The output of the last tool result, as process_ai_query hands it over
ShownOutput ==
    IF exec_result.success THEN exec_result.output ELSE exec_result.error

\* C37: the output embedded in a tool-result entry of the history is never
\* longer than MAX_OUTPUT_CHARS characters, and an output of at most
\* MAX_OUTPUT_CHARS characters is embedded unchanged.
C37_EmbeddedOutputBounded ==
    /\ \A i \in 1..Len(history) :
          history[i].metadata # NoMetadata =>
              TextLen(EmbeddedOutput(history[i].content)) <= MAX_OUTPUT_CHARS
    /\ (exec_result # NoResult /\ TextLen(ShownOutput) <= MAX_OUTPUT_CHARS) =>
          EmbeddedOutput(history[Len(history)].content) = ShownOutput

\* C37 witness: an output longer than MAX_OUTPUT_CHARS characters has been
\* recorded, cut but not to nothing, after one that was short enough.
C37_Witness ==
    /\ Len(history) = 2
    /\ TextLen(EmbeddedOutput(history[1].content)) = MAX_OUTPUT_CHARS
    /\ exec_result # NoResult
    /\ TextLen(ShownOutput) > MAX_OUTPUT_CHARS
    /\ TextLen(EmbeddedOutput(history[2].content)) > 1000

RECURSIVE TokenSumTo(_, _)
\* The sum over the first k entries of a history of floor(len(content) / 4)
TokenSumTo(h, k) ==
    IF k = 0 THEN 0
    ELSE TokenSumTo(h, k - 1) + (TextLen(h[k].content) \div 4)

TokenSum(h) == TokenSumTo(h, Len(h))

\* C38: after any sequence of the four mutators the token estimate is the
\* sum over the retained entries of floor(len(content) / 4), and the summary
\* counts satisfy total_messages = user_messages + assistant_messages and
\* tool_calls <= assistant_messages.
C38_TokenEstimateAndSummary ==
    LET summary == get_summary(Conv)
        tokens == TokenSum(history)
    IN
    /\ token_estimate = tokens
    /\ summary.estimated_tokens = tokens
    /\ summary.total_messages = summary.user_messages + summary.assistant_messages
    /\ summary.tool_calls <= summary.assistant_messages

\* C38 witness: after a clear, enough entries were added for the oldest to be
\* trimmed, and a tool result is among the retained ones.
C38_Witness ==
    /\ clears_used > 0
    /\ Len(appended) > MAX_HISTORY_MESSAGES
    /\ Len(history) = MAX_HISTORY_MESSAGES
    /\ get_summary(Conv).tool_calls = 1
    /\ get_summary(Conv).user_messages = MAX_HISTORY_MESSAGES - 1
    /\ token_estimate > 0

\* C8: a shell_command tool call whose command the safety gate rejects
\* returns success=false with an error text that mentions the reason, and
\* spawns no process.
C8_RejectedToolCall ==
    ShellRejected =>
        /\ ~exec_result.success
        /\ Mentions(exec_result.error,
                    is_safe_command(last_tool_call.args.command,
                                    settings_safety_profile)[2])
        /\ spawned = 0

-----------------------------------------------------------------------------
(* Specification of the child-process branch of run_safe_command: one call *)
(* for a command the safety gate accepted, the runner and its child taking *)
(* their steps in any order, and the user free to interrupt                *)

Cmd_vi == <<"v", "i", " ", "x">>

RunnerCommands == {Cmd_ls, Cmd_vi}
ExitCodes == {0, 2}

RECURSIVE WriteSeqs(_)
\* The sequences of at most n writes, each to "out" or to "err"
WriteSeqs(n) ==
    IF n = 0 THEN {<<>>}
    ELSE WriteSeqs(n - 1)
         \cup {Append(w, s) : w \in {v \in WriteSeqs(n - 1) : Len(v) = n - 1},
                              s \in {"out", "err"}}

\* What the runner's steps leave alone
runnerFrame ==
    <<sessVars, gateVars, convVars, convBudget, files, procVars, cleanVars, replyVars>>

RunInteractive == is_interactive(sess_call.arg)

RunnerInit ==
    /\ SessionInit
    /\ home = <<"/", "o">>
    /\ GateIdle
    /\ CleanIdle
    /\ ReplyIdle
    /\ ConvInit
    /\ FilesInit
    /\ ProcInit
    /\ \E command \in RunnerCommands :
          sess_call = [op |-> "run", arg |-> command, profile |-> "standard"]
    /\ run_res = <<>>
    /\ spawned = 0
    /\ run_pc = "popen"
    /\ child_state = "none"
    /\ child_prog \in WriteSeqs(MaxWrites)
    /\ child_code \in ExitCodes
    /\ pipe_stdout = <<>>
    /\ pipe_stderr = <<>>
    /\ stdout_str_list = <<>>
    /\ stderr_str_list = <<>>
    /\ wrote_stdout = <<>>
    /\ wrote_stderr = <<>>
    /\ terminate_calls = 0
    /\ interrupted_at = "none"

\* The call returns res
RunReturn(res) ==
    /\ run_res' = res
    /\ run_pc' = "done"

\* subprocess.Popen(...) starts the child
Popen ==
    /\ run_pc = "popen"
    /\ child_state' = "running"
    /\ spawned' = spawned + 1
    /\ run_pc' = IF RunInteractive THEN "wait_tty" ELSE "poll"
    /\ UNCHANGED <<sess_call, run_res, stdout_str_list, stderr_str_list,
                   terminate_calls, interrupted_at, child_prog, child_code,
                   pipe_stdout, pipe_stderr, wrote_stdout, wrote_stderr,
                   runnerFrame>>

\* subprocess.Popen(...) raises, and the outer except clause returns
PopenFails ==
    /\ run_pc = "popen"
    /\ spawned' = spawned + 1
    /\ RunReturn(failed_result(<<"[Errno 2] No such file or directory">>))
    /\ UNCHANGED <<sess_call, stdout_str_list, stderr_str_list,
                   terminate_calls, interrupted_at, childVars, runnerFrame>>

\* KeyboardInterrupt is raised inside subprocess.Popen(...): the handler
\* reads the local process, which is not bound yet, and the outer except
\* clause returns
InterruptPopen ==
    /\ run_pc = "popen"
    /\ spawned' = spawned + 1
    /\ interrupted_at' = "popen"
    /\ RunReturn(failed_result(
          <<"cannot access local variable 'process' where it is not associated with a value">>))
    /\ UNCHANGED <<sess_call, stdout_str_list, stderr_str_list,
                   terminate_calls, childVars, runnerFrame>>

\* while process.poll() is None
Poll ==
    /\ run_pc = "poll"
    /\ run_pc' = IF child_state = "running" THEN "read_stdout" ELSE "wait"
    /\ UNCHANGED <<callVars, stdout_str_list, stderr_str_list,
                   terminate_calls, interrupted_at, childVars, runnerFrame>>

\* output = process.stdout.readline(): it returns the next line, or "" at
\* end of file, and blocks while the pipe is empty and the child has it open
ReadStdout ==
    /\ run_pc = "read_stdout"
    /\ pipe_stdout # <<>> \/ child_state # "running"
    /\ IF pipe_stdout # <<>>
       THEN /\ stdout_str_list' = Append(stdout_str_list, Head(pipe_stdout))
            /\ pipe_stdout' = Tail(pipe_stdout)
       ELSE UNCHANGED <<stdout_str_list, pipe_stdout>>
    /\ run_pc' = "read_stderr"
    /\ UNCHANGED <<callVars, stderr_str_list, terminate_calls, interrupted_at,
                   child_state, child_prog, child_code, pipe_stderr,
                   wrote_stdout, wrote_stderr, runnerFrame>>

\* error_output = process.stderr.readline()
ReadStderr ==
    /\ run_pc = "read_stderr"
    /\ pipe_stderr # <<>> \/ child_state # "running"
    /\ IF pipe_stderr # <<>>
       THEN /\ stderr_str_list' = Append(stderr_str_list, Head(pipe_stderr))
            /\ pipe_stderr' = Tail(pipe_stderr)
       ELSE UNCHANGED <<stderr_str_list, pipe_stderr>>
    /\ run_pc' = "poll"
    /\ UNCHANGED <<callVars, stdout_str_list, terminate_calls, interrupted_at,
                   child_state, child_prog, child_code, pipe_stdout,
                   wrote_stdout, wrote_stderr, runnerFrame>>

\* returncode = process.wait(), and the return of the non-interactive branch
Wait ==
    /\ run_pc = "wait"
    /\ child_state = "exited"
    /\ RunReturn(exit_result(FALSE, child_code, stdout_str_list,
                             stderr_str_list))
    /\ UNCHANGED <<sess_call, spawned, stdout_str_list, stderr_str_list,
                   terminate_calls, interrupted_at, childVars, runnerFrame>>

\* process.wait(), and the return of the interactive branch
WaitTty ==
    /\ run_pc = "wait_tty"
    /\ child_state = "exited"
    /\ RunReturn(exit_result(TRUE, child_code, <<>>, <<>>))
    /\ UNCHANGED <<sess_call, spawned, stdout_str_list, stderr_str_list,
                   terminate_calls, interrupted_at, childVars, runnerFrame>>

\* KeyboardInterrupt is raised while the runner polls, reads or waits: the
\* except clause of its branch terminates the child and returns
Interrupt ==
    /\ run_pc \in {"poll", "read_stdout", "read_stderr", "wait", "wait_tty"}
    /\ interrupted_at' = run_pc
    /\ terminate_calls' = terminate_calls + 1
    /\ child_state' = IF child_state = "running" THEN "terminated"
                      ELSE child_state
    /\ RunReturn(interrupt_result(RunInteractive))
    /\ UNCHANGED <<sess_call, spawned, stdout_str_list, stderr_str_list,
                   child_prog, child_code, pipe_stdout, pipe_stderr,
                   wrote_stdout, wrote_stderr, runnerFrame>>

\* The child writes its next line: to the terminal when it is interactive,
\* into a pipe otherwise, where it blocks while the pipe is full
ChildWrite ==
    /\ child_state = "running"
    /\ child_prog # <<>>
    /\ IF Head(child_prog) = "out"
       THEN LET line == ChildLine("out", Len(wrote_stdout) + 1) IN
            /\ RunInteractive \/ Len(pipe_stdout) < PipeCapacity
            /\ wrote_stdout' = Append(wrote_stdout, line)
            /\ pipe_stdout' = IF RunInteractive THEN pipe_stdout
                              ELSE Append(pipe_stdout, line)
            /\ UNCHANGED <<wrote_stderr, pipe_stderr>>
       ELSE LET line == ChildLine("err", Len(wrote_stderr) + 1) IN
            /\ RunInteractive \/ Len(pipe_stderr) < PipeCapacity
            /\ wrote_stderr' = Append(wrote_stderr, line)
            /\ pipe_stderr' = IF RunInteractive THEN pipe_stderr
                              ELSE Append(pipe_stderr, line)
            /\ UNCHANGED <<wrote_stdout, pipe_stdout>>
    /\ child_prog' = Tail(child_prog)
    /\ UNCHANGED <<callVars, run_pc, stdout_str_list, stderr_str_list,
                   terminate_calls, interrupted_at, child_state, child_code,
                   runnerFrame>>

\* The child has written all its lines and exits, which closes its ends of
\* the pipes
ChildExit ==
    /\ child_state = "running"
    /\ child_prog = <<>>
    /\ child_state' = "exited"
    /\ UNCHANGED <<callVars, run_pc, stdout_str_list, stderr_str_list,
                   terminate_calls, interrupted_at, child_prog, child_code,
                   pipe_stdout, pipe_stderr, wrote_stdout, wrote_stderr,
                   runnerFrame>>

RunnerStep == Popen \/ Poll \/ ReadStdout \/ ReadStderr \/ Wait \/ WaitTty
ChildStep == ChildWrite \/ ChildExit

RunnerNext ==
    \/ Popen \/ PopenFails \/ InterruptPopen
    \/ Poll \/ ReadStdout \/ ReadStderr \/ Wait \/ WaitTty
    \/ Interrupt
    \/ ChildWrite \/ ChildExit

SpecRunner == RunnerInit /\ [][RunnerNext]_vars

\* The same with a scheduler that lets the runner and the child take the
\* steps they can take; nothing obliges the user to interrupt
SpecRunnerFair ==
    /\ RunnerInit
    /\ [][RunnerNext]_vars
    /\ WF_vars(RunnerStep)
    /\ WF_vars(ChildStep)

(* Claims about the child-process branch of the runner *)

\* The call has returned after its child ran to completion
RunCompleted ==
    /\ run_pc = "done"
    /\ interrupted_at = "none"
    /\ child_state = "exited"

\* The places where the non-interactive branch awaits its child
AwaitPoints == {"poll", "read_stdout", "read_stderr", "wait"}

\* C12: when run_safe_command has run a child to completion, interactive or
\* not, it returns the child's exit code, and ok is true exactly when that
\* code is 0.
C12_OkIffExitZero ==
    RunCompleted =>
        /\ run_res[2] = child_code
        /\ run_res[1] = (run_res[2] = 0)

\* C13: for a non-interactive command that ran to completion, the returned
\* stdout and stderr are all the lines the child wrote to each stream, in
\* order.
C13_StreamsComplete ==
    (RunCompleted /\ ~RunInteractive) =>
        /\ run_res[3] = Flatten(wrote_stdout)
        /\ run_res[4] = Flatten(wrote_stderr)

\* C14: the runner and the child being scheduled fairly, and every child
\* exiting once its output is consumed, run_safe_command eventually returns.
C14_RunnerReturns == <>(run_pc = "done")

\* C15: an interrupt raised while a non-interactive child is awaited, at any
\* point of the poll/read loop, makes the runner call terminate on the child
\* and return (False, -1, "", "Command interrupted by user.").
C15_NonInteractiveInterrupt ==
    (~RunInteractive /\ interrupted_at \in AwaitPoints) =>
        /\ run_pc = "done"
        /\ terminate_calls = 1
        /\ child_state # "running"
        /\ run_res = <<FALSE, -1, <<>>,
                       Msg("Command interrupted by user.", <<>>)>>

\* C15 witness: the interrupt came between the two reads, after a line of
\* stdout had been captured; the child was still running and was terminated.
C15_Witness ==
    /\ ~RunInteractive
    /\ interrupted_at = "read_stderr"
    /\ stdout_str_list # <<>>
    /\ child_state = "terminated"
    /\ run_res[3] = <<>>

\* C16: an interrupt raised while an interactive child is awaited makes the
\* runner call terminate on the child and return (True, 0, "", ""), never
\* the failure of the non-interactive branch.
C16_InteractiveInterrupt ==
    (RunInteractive /\ interrupted_at = "wait_tty") =>
        /\ run_pc = "done"
        /\ terminate_calls = 1
        /\ child_state # "running"
        /\ run_res = <<TRUE, 0, <<>>, <<>>>>

\* C16 witness: an interactive child that had written to the terminal and
\* was going to exit with code 2 was interrupted and terminated.
C16_Witness ==
    /\ RunInteractive
    /\ interrupted_at = "wait_tty"
    /\ child_state = "terminated"
    /\ wrote_stdout # <<>>
    /\ child_code = 2
    /\ run_res[1]

-----------------------------------------------------------------------------
(* The tool dispatcher and the file tools, called on one session: every    *)
(* step is one call of ToolExecutor.execute run to its return.             *)

Cmd_cd_a == <<"c", "d", " ", "a">>
Cmd_cd_up == <<"c", "d", " ", ".", ".">>

\* The paths handed to write_file: relative and absolute, below and outside
\* the start directory, and into a directory whose name starts like the
\* start directory's
WritePaths ==
    {<<"f">>,
     <<".", ".", "/", "f">>,
     <<".", ".", "/", "o", "/", "k">>,
     <<".", ".", "/", ".", ".", "/", "o", "/", "k">>,
     <<"/", "o", "/", "k">>,
     <<"/", "s", "a", "/", "n">>}

\* The paths handed to read_file: those, a file that does not exist, a
\* directory, a file that is not text and a file without permissions
ReadPaths ==
    WritePaths \cup {<<"n">>, <<"a">>, <<"b">>, <<"p">>}

\* The contents handed to write_file: plain text, and text with a carriage
\* return and a line feed in it
ToolContents ==
    {<<"n", "e", "w">>, <<"a", "\r", "\n", "b", "\n">>}

\* The tool calls handed to ToolExecutor.execute
ToolCalls ==
    {[tool |-> "write_file", args |-> [path |-> path, content |-> content]] :
        path \in WritePaths, content \in ToolContents}
    \cup {[tool |-> "write_file", args |-> [path |-> path]] :
            path \in {<<"f">>, <<"/", "o", "/", "k">>}}
    \cup {[tool |-> "read_file", args |-> [path |-> path]] : path \in ReadPaths}
    \cup {[tool |-> "shell_command", args |-> [command |-> command]] :
            command \in {Cmd_ls, Cmd_cd_a, Cmd_cd_up, Cmd_rm}}
    \cup {[tool |-> "shell_command", args |-> [command |-> <<>>]],
          [tool |-> "shell_command", args |-> <<>>],
          [tool |-> "shell_command"],
          [tool |-> "write_file", args |-> [path |-> <<>>, content |-> <<"n", "e", "w">>]],
          [tool |-> "write_file", args |-> [content |-> <<"n", "e", "w">>]],
          [tool |-> "write_file"],
          [tool |-> "read_file", args |-> <<>>],
          [tool |-> "read_file"],
          [tool |-> "delete_file", args |-> [path |-> <<"f">>]],
          [tool |-> "Shell_Command", args |-> [command |-> Cmd_ls]],
          [args |-> [command |-> Cmd_ls]]}

ToolsInit ==
    /\ SessionInit
    /\ home = <<"/", "o">>
    /\ CallInit
    /\ GateIdle
    /\ ConvInit
    /\ FilesInit
    /\ ProcInit
    /\ RunIdle
    /\ CleanIdle
    /\ ReplyIdle

\* ToolExecutor.execute(session, tool_call, safety_profile) runs to its return
Execute ==
    \E tc \in ToolCalls :
        \E r \in execute(sandbox_root, cwd, home, files, tc,
                         settings_safety_profile) :
            /\ sess_call' = [op |-> "execute", arg |-> tc,
                             profile |-> settings_safety_profile]
            /\ run_res' = r.result
            /\ cwd' = r.cwd
            /\ files' = r.files
            /\ spawned' = r.spawned
            /\ UNCHANGED <<sandbox_root, home, gateVars, convVars, convBudget,
                           procVars, runVars, cleanVars, replyVars>>

ToolsNext == Execute

SpecTools == ToolsInit /\ [][ToolsNext]_vars

(* Claims about the file tools and the dispatcher *)

\* The call that has just returned was of this tool
Executed(tool_name) ==
    /\ sess_call.op = "execute"
    /\ tool_get(sess_call.arg) = tool_name

\* The path argument of the call that has just returned
ExecutedPath == arg_get(tool_args_of(sess_call.arg), "path", <<>>)

\* The absolute path names something that is neither the sandbox root nor
\* below it
OutsideSandbox(file_path) == ~DirWithin(file_path, sandbox_root)

\* The absolute path a file tool resolves path to in directory dir
Resolved(dir, path) == abspath(path_join(dir, path), StartDir)

\* C17: whatever the session's cwd, a write_file whose path, relative or
\* absolute, resolves outside the sandbox root returns success=false and
\* leaves every file as it was.
C17_WriteOutsideFails ==
    [][(/\ Executed("write_file")'
        /\ ExecutedPath' # <<>>
        /\ OutsideSandbox(Resolved(cwd, ExecutedPath')))
       => (/\ ~run_res'.success
           /\ files' = files)]_vars

\* C17 witness: from a directory below the sandbox root, a relative write
\* to the text file outside of it was refused and the file is as it was.
C17_Witness ==
    /\ Executed("write_file")
    /\ cwd = <<"/", "s", "/", "a">>
    /\ ExecutedPath = <<".", ".", "/", ".", ".", "/", "o", "/", "k">>
    /\ OutsideSandbox(Resolved(cwd, ExecutedPath))
    /\ ~run_res.success
    /\ files[<<C_o, <<"k">>>>].content = F_secret

\* C18: a successful write_file followed by a read_file of the same path in
\* the same cwd returns success with the written content as its output, and
\* a write to a file that exists leaves exactly the new content in it.
C18_RoundTrip ==
    [][/\ (/\ Executed("write_file")
           /\ run_res.success
           /\ Executed("read_file")'
           /\ ExecutedPath' = ExecutedPath
           /\ cwd' = cwd)
          => (/\ run_res'.success
              /\ run_res'.output
                    = arg_get(tool_args_of(sess_call.arg), "content", <<>>))
       /\ (/\ Executed("write_file")'
           /\ run_res'.success
           /\ isfile(files, Resolved(cwd, ExecutedPath')))
          => (/\ files'[path_key(Resolved(cwd, ExecutedPath'))].content
                    = arg_get(tool_args_of(sess_call'.arg), "content", <<>>)
              /\ \A k \in DOMAIN files' \ {path_key(Resolved(cwd, ExecutedPath'))} :
                    k \in DOMAIN files /\ files'[k] = files[k])]_vars

\* C19: a read_file whose path resolves outside the sandbox root is refused:
\* success=false and no output.
C19_ReadOutsideRejected ==
    (/\ Executed("read_file")
     /\ OutsideSandbox(Resolved(cwd, ExecutedPath)))
    => (/\ ~run_res.success
        /\ run_res.output = <<>>)

\* The tool call is invalid: an unknown tool name, a shell_command without a
\* command or with an empty one, a write_file without a path or with an empty
\* one, a read_file without a path
InvalidToolCall(tool_call) ==
    \/ tool_get(tool_call) \notin {"shell_command", "read_file", "write_file"}
    \/ /\ tool_get(tool_call) = "shell_command"
       /\ arg_get(tool_args_of(tool_call), "command", <<>>) = <<>>
    \/ /\ tool_get(tool_call) = "write_file"
       /\ arg_get(tool_args_of(tool_call), "path", <<>>) = <<>>
    \/ /\ tool_get(tool_call) = "read_file"
       /\ "path" \notin DOMAIN tool_args_of(tool_call)

\* C20: an invalid tool call makes execute return success=false with an
\* error that is not empty; no process is spawned, no file is written and
\* the session's cwd stays.
C20_InvalidToolCall ==
    [][(sess_call'.op = "execute" /\ InvalidToolCall(sess_call'.arg))
       => (/\ ~run_res'.success
           /\ run_res'.error # <<>>
           /\ spawned' = 0
           /\ files' = files
           /\ cwd' = cwd)]_vars

\* C20 witness: after the session had moved below the sandbox root and a
\* file had been written, a shell_command with an empty command was refused.
C20_Witness ==
    /\ Executed("shell_command")
    /\ "args" \in DOMAIN sess_call.arg
    /\ "command" \in DOMAIN sess_call.arg.args
    /\ sess_call.arg.args.command = <<>>
    /\ cwd = <<"/", "s", "/", "a">>
    /\ files # FilesAtStart
    /\ ~run_res.success
    /\ run_res.error = <<"Error: No command provided">>

-----------------------------------------------------------------------------
(* The command cleaner, called on a string and again on what it returned *)

\* The pieces the strings handed to the cleaner are made of: quotes, a
\* backtick, a code fence, a language tag, prompt glyphs, "$" and "#", words,
\* a space and a line break
CleanPieces ==
    {<<Backtick>>, Fence, <<"\"">>, <<"'">>, <<"$", " ">>, <<">", " ">>,
     <<"#">>, <<"$", "V">>, <<"l", "s">>, <<"e", "c", "h", "o">>,
     <<"s", "h">>, <<" ">>, <<"\n">>}

RECURSIVE CleanPieceSeqs(_)
CleanPieceSeqs(n) ==
    IF n = 0 THEN {<<>>}
    ELSE LET shorter == CleanPieceSeqs(n - 1)
         IN  shorter \cup {Append(ps, p) : ps \in shorter, p \in CleanPieces}

CleanInputs == {Flatten(ps) : ps \in CleanPieceSeqs(MaxCleanPieces)}

CleanInit ==
    /\ clean_cmd \in CleanInputs
    /\ clean_outs = <<>>
    /\ SessionInit
    /\ home = <<"/", "o">>
    /\ CallInit
    /\ GateIdle
    /\ ConvInit
    /\ FilesInit
    /\ ProcInit
    /\ RunIdle
    /\ ReplyIdle

\* CommandCleaner.clean is called on the string, then on what it returned
CleanCall ==
    /\ Len(clean_outs) < MaxCleans
    /\ clean_outs' =
          Append(clean_outs,
                 clean(IF clean_outs = <<>> THEN clean_cmd
                       ELSE clean_outs[Len(clean_outs)]))
    /\ UNCHANGED <<clean_cmd, sessVars, callVars, gateVars, convVars,
                   convBudget, files, procVars, runVars, replyVars>>

CleanNext == CleanCall

SpecClean == CleanInit /\ [][CleanNext]_vars

(* Claims about the command cleaner *)

\* C30: command cleaning is idempotent: cleaning what clean returned returns
\* it unchanged.
C30_CleanIdempotent ==
    Len(clean_outs) >= 2 => clean_outs[2] = clean_outs[1]
====
